---- MODULE Spec2Model ----
(***************************************************************************)
(* tree-sorter-ts: the AST processor (ProcessFileAST and the object,       *)
(* array and constructor sorters it drives).                               *)
(*                                                                         *)
(* Source text is a sequence of atoms.  An atom is one lexical unit of the *)
(* file: a newline, a space, a delimiter, a comma, a comment, a property   *)
(* key, a literal, a parameter, or opaque code outside any region.  A byte *)
(* offset of the program is an index into that sequence, a byte range      *)
(* content[a:b] is the atoms a .. b-1, and a source row is the number of   *)
(* newline atoms before an index.  The syntax tree the program gets from   *)
(* tree-sitter is computed from the atoms by NodeEnd / Children.           *)
(***************************************************************************)
EXTENDS Integers, Sequences, FiniteSets, TLC

VARIABLES
  disk,        \* the bytes of the file on disk
  cfgWrite,    \* config.Write
  pc,          \* where ProcessFileAST stands: "idle", "apply", "done", "panic";
               \* ProcessContent: "idle", "sortables", "returned", "error", "fault"
  content,     \* the buffer the current call read
  newContent,  \* the working copy the second pass splices into
  items,       \* the regions the second pass has still to visit
  result,      \* ProcessResult
  regs,        \* what the first pass found for each region, in visiting order
  run,         \* number of the current call on this file
  hist,        \* one record per finished call
  tieBreak,    \* how the build's sort.Slice leaves equal items: "source", "reverse"
  \* processFilesParallel
  fsys,         \* the files of the list: their bytes and what the system lets do
  cfgWorkers,   \* config.Workers
  numCPU,       \* runtime.NumCPU()
  sent,         \* how many files the sending loop has sent
  fileChan,     \* the files in fileChan
  chanClosed,   \* close(fileChan) has happened
  workers,      \* each worker goroutine: "recv", "work" (with its file), "exit"
  resultChan,   \* the results in resultChan
  mainPc,       \* the calling goroutine: "send", "wait", "collect", "done", "crashed"
  fileStats,    \* stats
  errors,       \* the files whose results carried an error, as collected
  needsSorting, \* needsSorting
  ret,          \* what processFilesParallel returns
  calls         \* one record per finished call of ProcessFileAST by a worker

fileVars == <<disk, pc, content, newContent, items, result, regs, run, hist,
              tieBreak>>

poolVars == <<fsys, cfgWorkers, numCPU, sent, fileChan, chanClosed, workers,
              resultChan, mainPc, fileStats, errors, needsSorting, ret, calls>>

vars == <<disk, cfgWrite, pc, content, newContent, items, result, regs,
          run, hist, tieBreak, fsys, cfgWorkers, numCPU, sent, fileChan,
          chanClosed, workers, resultChan, mainPc, fileStats, errors,
          needsSorting, ret, calls>>

---------------------------------------------------------------------------
(* Atoms *)

Atom(t, k, m, o) == [t |-> t, k |-> k, m |-> m, o |-> o]
Tok(t) == Atom(t, <<>>, FALSE, {})
NL == Tok("nl")
SP == Tok("sp")
COMMA == Tok(",")
Lit(k) == Atom("lit", k, FALSE, {})
Key(k) == Atom("key", k, FALSE, {})
Param(k) == Atom("param", k, FALSE, {})
Cmt(k) == Atom("comment", k, FALSE, {})
Magic(o, k) == Atom("comment", k, TRUE, o)
Other(k) == Atom("other", k, FALSE, {})

Openers == {"{", "[", "("}
Closers == {"}", "]", ")"}
IsWs(a) == a.t \in {"nl", "sp"}

\* content[a:b] of the program, for 1-based a and b.
Slice(c, a, b) == SubSeq(c, a, b - 1)

\* The character code that stands for the annotation word "@deprecated"
\* inside a comment's text.
DeprecatedWord == 64
\* U+FFFF, the prefix the array sorter puts on the key of an element whose
\* key could not be extracted.
MissingPrefix == 65535

\* The number of calls of ProcessFileAST followed on one file.
MaxRuns == 2

NoNode == [s |-> 0, e |-> 0]
Node(s, e) == [s |-> s, e |-> e]

---------------------------------------------------------------------------
(* The syntax tree (tree-sitter), as far as the program reads it *)

\* Openers minus closers among atoms a .. b.
Nesting(c, a, b) ==
  Cardinality({k \in a .. b : c[k].t \in Openers})
    - Cardinality({k \in a .. b : c[k].t \in Closers})

Least(S) == CHOOSE x \in S : \A y \in S : x <= y
Greatest(S) == CHOOSE x \in S : \A y \in S : y <= x

\* The closer of the container whose contents start at atom i (the last
\* atom when it is not closed).
CloseIdx(c, i) ==
  Least({j \in i .. Len(c) : Nesting(c, i, j) = -1} \cup {Len(c)})

RECURSIVE SkipWs(_, _)
SkipWs(c, i) ==
  IF i <= Len(c) /\ IsWs(c[i]) THEN SkipWs(c, i + 1) ELSE i

\* EndByte of the node that starts at atom i.
RECURSIVE NodeEnd(_, _)
NodeEnd(c, i) ==
  IF i > Len(c) THEN i
  ELSE IF c[i].t \in Openers THEN CloseIdx(c, i + 1) + 1
  ELSE IF c[i].t = "key" THEN NodeEnd(c, SkipWs(c, i + 1))
  ELSE i + 1

\* The nodes between atom i and atom stop, in source order.
RECURSIVE Kids(_, _, _)
KidsAt(c, s, stop) ==
  IF s >= stop THEN <<>>
  ELSE LET e == Least({NodeEnd(c, s), stop})
       IN <<Node(s, e)>> \o Kids(c, e, stop)
Kids(c, i, stop) == KidsAt(c, SkipWs(c, i), stop)

IsToken(n) == n.e = n.s + 1

\* Node.Child(0 .. ChildCount-1): a container's delimiters are children too.
Children(c, n) ==
  IF IsToken(n) THEN <<>>
  ELSE IF c[n.s].t \in Openers
       THEN <<Node(n.s, n.s + 1)>> \o Kids(c, n.s + 1, n.e - 1)
              \o <<Node(n.e - 1, n.e)>>
  ELSE IF c[n.s].t = "key"
       THEN <<Node(n.s, n.s + 1)>> \o Kids(c, n.s + 1, n.e)
  ELSE <<>>

Digits == 48 .. 57
Quotes == {34, 39, 96}
TRUEtxt == <<116, 114, 117, 101>>
FALSEtxt == <<102, 97, 108, 115, 101>>
NULLtxt == <<110, 117, 108, 108>>

LitType(k) ==
  IF k = <<>> THEN "identifier"
  ELSE IF k[1] \in Quotes THEN "string"
  ELSE IF k[1] \in Digits \/ k[1] = 45 THEN "number"
  ELSE IF k = TRUEtxt THEN "true"
  ELSE IF k = FALSEtxt THEN "false"
  ELSE IF k = NULLtxt THEN "null"
  ELSE "identifier"

KeyType(k) ==
  IF k = <<>> THEN "property_identifier"
  ELSE IF k[1] \in Quotes THEN "string"
  ELSE IF k[1] \in Digits THEN "number"
  ELSE IF k[1] = 91 THEN "computed_property_name"
  ELSE "property_identifier"

\* Node.Type()
NodeType(c, n) ==
  LET a == c[n.s] IN
  IF a.t = "{" THEN (IF IsToken(n) THEN "{" ELSE "object")
  ELSE IF a.t = "[" THEN (IF IsToken(n) THEN "[" ELSE "array")
  ELSE IF a.t = "(" THEN (IF IsToken(n) THEN "(" ELSE "formal_parameters")
  ELSE IF a.t = "key" THEN (IF IsToken(n) THEN KeyType(a.k) ELSE "pair")
  ELSE IF a.t = "lit" THEN LitType(a.k)
  ELSE IF a.t = "param" THEN "required_parameter"
  ELSE a.t

\* The number of newlines among the first i atoms.
CountNl(c, i) == Cardinality({j \in 1 .. i : c[j].t = "nl"})

\* StartPoint().Row and EndPoint().Row
StartRow(c, n) == CountNl(c, n.s - 1)
EndRow(c, n) == CountNl(c, n.e - 1)

\* The scan "for lineStart > 0 && content[lineStart-1] != '\n'".
RECURSIVE LineStart(_, _)
LineStart(c, i) ==
  IF i > 1 /\ c[i - 1].t # "nl" THEN LineStart(c, i - 1) ELSE i

\* The bytes of an atom, as character codes.
AtomText(a) ==
  IF a.t = "key" THEN a.k \o <<58>>
  ELSE IF a.t \in {"lit", "param", "other"} THEN a.k
  ELSE IF a.t = "comment" THEN <<47, 42>> \o a.k \o <<42, 47>>
  ELSE IF a.t = "nl" THEN <<10>>
  ELSE IF a.t = "sp" THEN <<32>>
  ELSE IF a.t = "{" THEN <<123>>
  ELSE IF a.t = "}" THEN <<125>>
  ELSE IF a.t = "[" THEN <<91>>
  ELSE IF a.t = "]" THEN <<93>>
  ELSE IF a.t = "(" THEN <<40>>
  ELSE IF a.t = ")" THEN <<41>>
  ELSE <<44>>

RECURSIVE TextOf(_)
TextOf(atoms) ==
  IF atoms = <<>> THEN <<>> ELSE AtomText(Head(atoms)) \o TextOf(Tail(atoms))

\* string(content[node.StartByte():node.EndByte()])
NodeText(c, n) == TextOf(Slice(c, n.s, n.e))

---------------------------------------------------------------------------
(* Strings: Go's < on strings, strings.Trim, fmt.Sscanf("%f") *)

\* a < b for Go strings (bytewise; code points keep the UTF-8 order).
RECURSIVE StrLess(_, _)
StrLess(a, b) ==
  IF b = <<>> THEN FALSE
  ELSE IF a = <<>> THEN TRUE
  ELSE IF Head(a) # Head(b) THEN Head(a) < Head(b)
  ELSE StrLess(Tail(a), Tail(b))

RECURSIVE TrimLeft(_, _)
TrimLeft(s, cut) ==
  IF s # <<>> /\ Head(s) \in cut THEN TrimLeft(Tail(s), cut) ELSE s

RECURSIVE TrimRight(_, _)
TrimRight(s, cut) ==
  IF s # <<>> /\ s[Len(s)] \in cut
  THEN TrimRight(SubSeq(s, 1, Len(s) - 1), cut) ELSE s

\* strings.Trim(text, "\"'`")
TrimQuotes(s) == TrimRight(TrimLeft(s, Quotes), Quotes)

HasPrefix(s, p) == Len(s) >= Len(p) /\ SubSeq(s, 1, Len(p)) = p

\* The digits (and underscores) fmt's floatToken accepts from position i on.
RECURSIVE DigitRun(_, _)
DigitRun(s, i) ==
  IF i <= Len(s) /\ (s[i] \in Digits \/ s[i] = 95) THEN DigitRun(s, i + 1) ELSE i

RECURSIVE DecValue(_, _, _)
DecValue(s, i, acc) ==
  IF i > Len(s) THEN acc ELSE DecValue(s, i + 1, acc * 10 + (s[i] - 48))

\* base to the power n.
RECURSIVE Pow(_, _)
Pow(base, n) == IF n = 0 THEN 1 ELSE base * Pow(base, n - 1)

\* fmt.Sscanf(s, "%f", &x) for keys over signs, digits, underscores and
\* letters.  The token fmt reads (floatToken) is an optional sign, the run
\* of digits that follows and, when one of e, E, p, P comes next, that
\* letter with the optional sign and the digits after it; what follows the
\* token is left unread and is no error.  The conversion of the token fails
\* when it has no digits, an underscore, or an exponent letter without
\* digits.  ok is err == nil.  No key of the files has a negative exponent.
Sscanf(s) ==
  LET signed == s # <<>> /\ s[1] \in {43, 45}
      from == IF signed THEN 2 ELSE 1
      to == DigitRun(s, from)
      tok == SubSeq(s, from, to - 1)
      hasExp == to <= Len(s) /\ s[to] \in {101, 69, 112, 80}
      expFrom == IF to + 1 <= Len(s) /\ s[to + 1] \in {43, 45}
                 THEN to + 2 ELSE to + 1
      expTok == IF hasExp THEN SubSeq(s, expFrom, DigitRun(s, expFrom) - 1)
                ELSE <<>>
      wellFormed == /\ tok # <<>>
                    /\ \A i \in 1 .. Len(tok) : tok[i] \in Digits
                    /\ hasExp => /\ expTok # <<>>
                                 /\ \A i \in 1 .. Len(expTok) : expTok[i] \in Digits
      scale == IF ~hasExp THEN 1
               ELSE Pow(IF s[to] \in {101, 69} THEN 10 ELSE 2,
                        DecValue(expTok, 1, 0))
      mag == IF wellFormed THEN DecValue(tok, 1, 0) * scale ELSE 0
  IN [ok |-> wellFormed,
      val |-> IF signed /\ s[1] = 45 THEN 0 - mag ELSE mag]

compareKeys(a, b) ==
  LET numA == Sscanf(a)
      numB == Sscanf(b)
  IN IF numA.ok /\ numB.ok THEN numA.val < numB.val
     ELSE IF a \in {TRUEtxt, FALSEtxt} /\ b \in {TRUEtxt, FALSEtxt}
          THEN a = FALSEtxt /\ b = TRUEtxt
     ELSE StrLess(a, b)

---------------------------------------------------------------------------
(* Marker comments and their configuration *)

\* magicCommentRegex.Match(text) for the text of one comment atom.
IsMagic(a) == a.t = "comment" /\ a.m

\* The options the switch knows are with-new-line, deprecated-at-end and
\* key=; any other word of the marker (sort-by-comment among them) falls
\* through the default case and sets nothing.
parseSortConfig(a) ==
  IF IsMagic(a)
  THEN [WithNewLine |-> "with-new-line" \in a.o,
        DeprecatedAtEnd |-> "deprecated-at-end" \in a.o,
        Key |-> a.k]
  ELSE [WithNewLine |-> FALSE, DeprecatedAtEnd |-> FALSE, Key |-> <<>>]

\* The first direct child that is a marker comment (0 when there is none).
RECURSIVE FirstMagic(_, _, _)
FirstMagic(c, kids, i) ==
  IF i > Len(kids) THEN 0
  ELSE IF NodeType(c, kids[i]) = "comment" /\ IsMagic(c[kids[i].s]) THEN i
  ELSE FirstMagic(c, kids, i + 1)

\* The traversal of the three finders: every node of the wanted type, in
\* pre-order, that has a marker comment among its direct children.
RECURSIVE Traverse(_, _, _)
RECURSIVE TraverseAll(_, _, _, _)
Traverse(c, n, type) ==
  LET kids == Children(c, n)
      mi == FirstMagic(c, kids, 1)
      here == IF NodeType(c, n) = type /\ mi > 0
              THEN <<[kind |-> type, node |-> n, magicComment |-> kids[mi],
                      magicIndex |-> mi,
                      sortConfig |-> parseSortConfig(c[kids[mi].s])]>>
              ELSE <<>>
  IN here \o TraverseAll(c, kids, 1, type)
TraverseAll(c, kids, i, type) ==
  IF i > Len(kids) THEN <<>>
  ELSE Traverse(c, kids[i], type) \o TraverseAll(c, kids, i + 1, type)

\* The children of the root node: the top-level nodes of the file.
RootKids(c) == Kids(c, 1, Len(c) + 1)

findObjectsWithMagicCommentsAST(c) == TraverseAll(c, RootKids(c), 1, "object")
findArraysWithMagicCommentsAST(c) == TraverseAll(c, RootKids(c), 1, "array")
findConstructorsWithMagicCommentsAST(c) ==
  TraverseAll(c, RootKids(c), 1, "formal_parameters")

---------------------------------------------------------------------------
(* Item extraction *)

RECURSIVE hasDeprecatedAnnotation(_, _)
hasDeprecatedAnnotation(c, nodes) ==
  IF nodes = <<>> THEN FALSE
  ELSE (\E i \in 1 .. Len(c[Head(nodes).s].k) :
           c[Head(nodes).s].k[i] = DeprecatedWord)
       \/ hasDeprecatedAnnotation(c, Tail(nodes))

\* The node types an extractor takes as an item of its region.
IsPrimary(kind, type) ==
  IF kind = "object" THEN type = "pair"
  ELSE IF kind = "array" THEN type \notin {"comment", ",", "]"}
  ELSE type \in {"required_parameter", "optional_parameter"}

\* The look-ahead after a primary node: commas and same-line comments are
\* taken until another node or a comment on another row is met.  Objects and
\* arrays compare the comment's row with the row the primary node ends on;
\* parameter lists compare it with the last node taken (node or comma).
RECURSIVE LookAhead(_, _, _, _, _, _)
LookAhead(c, kind, kids, j, child, acc) ==
  IF j > Len(kids) THEN [acc EXCEPT !.j = j]
  ELSE LET next == kids[j]
           type == NodeType(c, next)
           ref == IF kind = "formal_parameters" THEN acc.lastNode ELSE child
       IN IF type = ","
          THEN LookAhead(c, kind, kids, j + 1, child,
                 [acc EXCEPT !.hasComma = TRUE, !.commaNode = next,
                             !.lastNode = next])
          ELSE IF type = "comment" /\ StartRow(c, next) = EndRow(c, ref)
          THEN LookAhead(c, kind, kids, j + 1, child,
                 [acc EXCEPT !.afterNode = next])
          ELSE [acc EXCEPT !.j = j]

\* A key atom stands for the key node and the colon after it; the text of
\* the key node is the atom's text.
extractKeyAST(c, keyNode) ==
  IF NodeType(c, keyNode) = "string" THEN TrimQuotes(c[keyNode.s].k)
  ELSE c[keyNode.s].k

\* The name an extractor records for the item: the property key of a pair,
\* the parameter name of a parameter; array elements get their key later.
ItemName(c, kind, child) ==
  IF kind = "object" THEN extractKeyAST(c, Node(child.s, child.s + 1))
  ELSE IF kind = "formal_parameters" THEN c[child.s].k
  ELSE <<>>

RECURSIVE ExtractFrom(_, _, _, _, _)
ExtractFrom(c, kind, kids, i, pendingComments) ==
  IF i > Len(kids) THEN <<>>
  ELSE LET child == kids[i]
           type == NodeType(c, child)
       IN IF type = "comment"
          THEN ExtractFrom(c, kind, kids, i + 1, Append(pendingComments, child))
          ELSE IF IsPrimary(kind, type)
          THEN LET la == LookAhead(c, kind, kids, i + 1, child,
                           [hasComma |-> FALSE, commaNode |-> NoNode,
                            afterNode |-> NoNode, lastNode |-> child, j |-> 0])
                   dep == hasDeprecatedAnnotation(c, pendingComments)
                          \/ (la.afterNode # NoNode
                              /\ hasDeprecatedAnnotation(c, <<la.afterNode>>))
               IN <<[node |-> child, key |-> ItemName(c, kind, child),
                     beforeNodes |-> pendingComments,
                     afterNode |-> la.afterNode, hasComma |-> la.hasComma,
                     commaNode |-> la.commaNode, isDeprecated |-> dep,
                     sortKey |-> <<>>]>>
                    \o ExtractFrom(c, kind, kids, la.j, <<>>)
          ELSE ExtractFrom(c, kind, kids, i + 1, pendingComments)

extractPropertiesAST(c, obj) ==
  ExtractFrom(c, "object", Children(c, obj.node), obj.magicIndex + 1, <<>>)
extractArrayElementsAST(c, arr) ==
  ExtractFrom(c, "array", Children(c, arr.node), arr.magicIndex + 1, <<>>)
extractConstructorParamsAST(c, constr) ==
  ExtractFrom(c, "formal_parameters", Children(c, constr.node),
              constr.magicIndex + 1, <<>>)

---------------------------------------------------------------------------
(* Array element keys *)

extractValueAsString(c, n) ==
  IF NodeType(c, n) = "string" THEN TrimQuotes(NodeText(c, n))
  ELSE IF NodeType(c, n) = "null" THEN NULLtxt
  ELSE NodeText(c, n)

\* strings.Split(keyPath, "."): the dotted path as its segments.
RECURSIVE SplitDots(_, _)
SplitDots(s, cur) ==
  IF s = <<>> THEN <<cur>>
  ELSE IF Head(s) = 46 THEN <<cur>> \o SplitDots(Tail(s), <<>>)
  ELSE SplitDots(Tail(s), Append(cur, Head(s)))

\* The inner loop over the children of currentNode: the first pair whose key
\* is `key` decides (descend, or return its value); 0 when there is none.
RECURSIVE FindPair(_, _, _, _)
FindPair(c, kids, i, key) ==
  IF i > Len(kids) THEN 0
  ELSE IF NodeType(c, kids[i]) = "pair"
          /\ extractKeyAST(c, Node(kids[i].s, kids[i].s + 1)) = key
          /\ kids[i].e > kids[i].s + 1
       THEN i
  ELSE FindPair(c, kids, i + 1, key)

PairValue(c, pair) == Node(SkipWs(c, pair.s + 1), pair.e)

RECURSIVE WalkKeys(_, _, _, _)
WalkKeys(c, currentNode, keys, nkeys) ==
  IF keys = <<>> THEN [ok |-> FALSE, val |-> <<>>]
  ELSE LET kids == Children(c, currentNode)
           hit == FindPair(c, kids, 1, Head(keys))
       IN IF hit = 0 THEN [ok |-> FALSE, val |-> <<>>]
          ELSE LET valueNode == PairValue(c, kids[hit])
               IN IF nkeys > 1 /\ NodeType(c, valueNode) = "object"
                  THEN WalkKeys(c, valueNode, Tail(keys), nkeys)
                  ELSE [ok |-> TRUE, val |-> extractValueAsString(c, valueNode)]

extractObjectProperty(c, objNode, keyPath) ==
  LET keys == SplitDots(keyPath, <<>>)
  IN WalkKeys(c, objNode, keys, Len(keys))

\* fmt.Sscanf(indexStr, "%d", &index) for an unsigned decimal index.
ScanIndex(s) ==
  LET to == DigitRun(s, 1)
      tok == SubSeq(s, 1, to - 1)
      good == tok # <<>> /\ \A i \in 1 .. Len(tok) : tok[i] \in Digits
  IN [ok |-> good, val |-> IF good THEN DecValue(tok, 1, 0) ELSE 0]

RECURSIVE NthElement(_, _, _, _)
NthElement(c, kids, i, left) ==
  IF i > Len(kids) THEN [ok |-> FALSE, val |-> <<>>]
  ELSE IF NodeType(c, kids[i]) \in {",", "comment", "[", "]"}
       THEN NthElement(c, kids, i + 1, left)
  ELSE IF left = 0
       THEN [ok |-> TRUE, val |-> extractValueAsString(c, kids[i])]
  ELSE NthElement(c, kids, i + 1, left - 1)

extractArrayIndex(c, arrNode, indexStr) ==
  LET index == ScanIndex(indexStr)
  IN IF ~index.ok THEN [ok |-> FALSE, val |-> <<>>]
     ELSE NthElement(c, Children(c, arrNode), 1, index.val)

extractElementKey(c, elem, keyPath) ==
  IF keyPath = <<>> THEN [ok |-> TRUE, val |-> NodeText(c, elem.node)]
  ELSE IF NodeType(c, elem.node) = "object"
       THEN extractObjectProperty(c, elem.node, keyPath)
  ELSE IF NodeType(c, elem.node) = "array"
       THEN extractArrayIndex(c, elem.node, keyPath)
  ELSE [ok |-> TRUE, val |-> extractValueAsString(c, elem.node)]

\* The first loop of sortArrayAST: every element gets its sortKey.
Keyed(c, elem, key) ==
  [elem EXCEPT !.sortKey =
     IF key.ok THEN key.val ELSE <<MissingPrefix>> \o NodeText(c, elem.node)]

WithSortKeys(c, elements, keyPath) ==
  [i \in 1 .. Len(elements) |->
     Keyed(c, elements[i], extractElementKey(c, elements[i], keyPath))]

---------------------------------------------------------------------------
(* Ordering *)

\* The less functions handed to sort.Slice, by region kind and option.
objectLess(deprecatedAtEnd, x, y) ==
  IF deprecatedAtEnd /\ x.isDeprecated # y.isDeprecated
  THEN ~x.isDeprecated
  ELSE StrLess(x.key, y.key)

arrayLess(deprecatedAtEnd, x, y) ==
  IF deprecatedAtEnd
  THEN IF x.isDeprecated # y.isDeprecated THEN ~x.isDeprecated
       ELSE StrLess(x.sortKey, y.sortKey)
  ELSE LET iHasMissingKey == HasPrefix(x.sortKey, <<MissingPrefix>>)
           jHasMissingKey == HasPrefix(y.sortKey, <<MissingPrefix>>)
       IN IF iHasMissingKey # jHasMissingKey THEN ~iHasMissingKey
          ELSE IF iHasMissingKey /\ jHasMissingKey
               THEN StrLess(x.sortKey, y.sortKey)
          ELSE compareKeys(x.sortKey, y.sortKey)

Less(kind, deprecatedAtEnd, x, y) ==
  IF kind = "array" THEN arrayLess(deprecatedAtEnd, x, y)
  ELSE objectLess(deprecatedAtEnd, x, y)

Swap(seq, i, j) == [seq EXCEPT ![i] = seq[j], ![j] = seq[i]]

\* sort.Slice on at most MaxInsertion elements is an insertion sort:
\*   for i := a + 1; i < b; i++ {
\*     for j := i; j > a && less(j, j-1); j-- { swap(j, j-1) } }
\* and keeps equal elements in their order.  On more elements it is a
\* quicksort that "is not guaranteed to be stable: equal elements may be
\* reversed from their original order"; which order they come out in is a
\* property of the build, tieBreak.  The quicksort (pdqsort_func) begins by
\* sampling three elements and, when they are in order, by an insertion
\* pass that gives up after a few misplaced elements
\* (partialInsertionSort_func): a slice in which no element is less than the
\* one before it is returned as it is, by every build.
MaxInsertion == 12

RECURSIVE SinkDown(_, _, _, _)
SinkDown(seq, j, kind, dep) ==
  IF j > 1 /\ Less(kind, dep, seq[j], seq[j - 1])
  THEN SinkDown(Swap(seq, j, j - 1), j - 1, kind, dep)
  ELSE seq

RECURSIVE InsertionSort(_, _, _, _)
InsertionSort(seq, i, kind, dep) ==
  IF i > Len(seq) THEN seq
  ELSE InsertionSort(SinkDown(seq, i, kind, dep), i + 1, kind, dep)

Reverse(seq) == [i \in 1 .. Len(seq) |-> seq[Len(seq) + 1 - i]]

Ascending(seq, kind, dep) ==
  \A i \in 2 .. Len(seq) : ~Less(kind, dep, seq[i], seq[i - 1])

sortSlice(seq, kind, dep) ==
  IF Len(seq) <= MaxInsertion \/ tieBreak = "source" \/ Ascending(seq, kind, dep)
  THEN InsertionSort(seq, 2, kind, dep)
  ELSE InsertionSort(Reverse(seq), 2, kind, dep)

---------------------------------------------------------------------------
(* Formatting check *)

CountNewlines(atoms) == Cardinality({i \in 1 .. Len(atoms) : atoms[i].t = "nl"})

EndNodeOf(item) ==
  IF item.afterNode # NoNode THEN item.afterNode
  ELSE IF item.commaNode # NoNode THEN item.commaNode
  ELSE item.node

\* A variant of the loop that expects one line end whatever the marker says.
SingleNewlineMismatch(c, withNewLine, its) ==
  \E i \in 1 .. Len(its) - 1 :
    LET startByte == EndNodeOf(its[i]).e
        endByte == IF Len(its[i + 1].beforeNodes) > 0
                   THEN its[i + 1].beforeNodes[1].s
                   ELSE its[i + 1].node.s
    IN CountNewlines(Slice(c, startByte, endByte)) # 1

\* The loop shared by the three formatting checks.
NewlineMismatch(c, withNewLine, its) ==
  \E i \in 1 .. Len(its) - 1 :
    LET startByte == EndNodeOf(its[i]).e
        endByte == IF Len(its[i + 1].beforeNodes) > 0
                   THEN its[i + 1].beforeNodes[1].s
                   ELSE its[i + 1].node.s
    IN CountNewlines(Slice(c, startByte, endByte))
         # (IF withNewLine THEN 2 ELSE 1)

\* A variant of the object check that expects a blank line between the
\* items whatever the marker says.
checkFormattingBlankLines(c, obj, properties) ==
  NewlineMismatch(c, TRUE, properties)

checkFormattingNeeded(c, obj, properties) ==
  NewlineMismatch(c, obj.sortConfig.WithNewLine, properties)

checkArrayFormattingNeeded(c, arr, elements) ==
  IF Len(elements) > 0
     /\ StartRow(c, elements[1].node) = EndRow(c, elements[Len(elements)].node)
  THEN FALSE
  ELSE NewlineMismatch(c, arr.sortConfig.WithNewLine, elements)

checkConstructorFormattingNeeded(c, constr, params) ==
  NewlineMismatch(c, constr.sortConfig.WithNewLine, params)

---------------------------------------------------------------------------
(* Reconstruction *)

\* Index (from the marker on) of the first child that is an item; 0 if none.
RECURSIVE FirstPrimary(_, _, _, _)
FirstPrimary(c, kind, kids, i) ==
  IF i > Len(kids) THEN 0
  ELSE IF IsPrimary(kind, NodeType(c, kids[i])) THEN i
  ELSE FirstPrimary(c, kind, kids, i + 1)

\* content[lineStart:start]: what precedes position `start` on its line.
LinePrefix(c, start) == Slice(c, LineStart(c, start), start)

CommonIndent(c, kind, reg) ==
  LET kids == Children(c, reg.node)
      first == FirstPrimary(c, kind, kids, reg.magicIndex + 1)
  IN IF first = 0 THEN <<>> ELSE LinePrefix(c, kids[first].s)

\* Index of the last child that is an item; 0 if none.
RECURSIVE LastPrimary(_, _, _, _, _)
LastPrimary(c, kind, kids, i, found) ==
  IF i > Len(kids) THEN found
  ELSE LastPrimary(c, kind, kids, i + 1,
         IF IsPrimary(kind, NodeType(c, kids[i])) THEN i ELSE found)

\* hasComma of findOriginalLastProperty / findOriginalLastArrayElement: the
\* child right after the last item is a comma.
NextIsComma(c, kids, last) ==
  last > 0 /\ last + 1 <= Len(kids) /\ NodeType(c, kids[last + 1]) = ","

\* hasComma of findOriginalLastConstructorParam: a comma follows the last
\* parameter, whatever lies between the two.
RECURSIVE CommaFollows(_, _, _)
CommaFollows(c, kids, i) ==
  IF i > Len(kids) THEN FALSE
  ELSE IF NodeType(c, kids[i]) = "," THEN TRUE
  ELSE IF NodeType(c, kids[i]) \in {"required_parameter", "optional_parameter"}
       THEN FALSE
  ELSE CommaFollows(c, kids, i + 1)

OriginalLastHasComma(c, kind, reg) ==
  LET kids == Children(c, reg.node)
      last == LastPrimary(c, kind, kids, reg.magicIndex + 1, 0)
  IN IF kind = "formal_parameters"
     THEN last > 0 /\ CommaFollows(c, kids, last + 1)
     ELSE NextIsComma(c, kids, last)

\* The backward scan for the end of the last meaningful content.
RECURSIVE LastContentEnd(_, _, _, _, _)
LastContentEnd(c, kids, i, magicIndex, types) ==
  IF i <= magicIndex THEN kids[magicIndex].e
  ELSE IF NodeType(c, kids[i]) \in types THEN kids[i].e
  ELSE LastContentEnd(c, kids, i - 1, magicIndex, types)

\* Index of the last child of the given closing type; 0 when there is none.
RECURSIVE LastOfType(_, _, _, _)
LastOfType(c, kids, i, type) ==
  IF i < 1 THEN 0
  ELSE IF NodeType(c, kids[i]) = type THEN i
  ELSE LastOfType(c, kids, i - 1, type)

findOriginalClosingSpacing(c, obj) ==
  LET kids == Children(c, obj.node)
      close == LastOfType(c, kids, Len(kids), "}")
  IN IF close = 0 THEN <<NL>>
     ELSE Slice(c, LastContentEnd(c, kids, Len(kids), obj.magicIndex,
                                  {"pair", ","}),
                kids[close].s)

findOriginalArrayClosingSpacing(c, arr) == <<NL>>

findOriginalConstructorClosingSpacing(c, constr) ==
  LET kids == Children(c, constr.node)
      close == LastOfType(c, kids, Len(kids), ")")
  IN IF close = 0 THEN <<NL>>
     ELSE Slice(c, LastContentEnd(c, kids, Len(kids), constr.magicIndex,
                  {"required_parameter", "optional_parameter", ",", "comment"}),
                kids[close].s)

OriginalSpacing(c, kind, reg) ==
  IF kind = "object" THEN findOriginalClosingSpacing(c, reg)
  ELSE IF kind = "array" THEN findOriginalArrayClosingSpacing(c, reg)
  ELSE findOriginalConstructorClosingSpacing(c, reg)

Closer(kind) ==
  IF kind = "object" THEN "}" ELSE IF kind = "array" THEN "]" ELSE ")"

\* The comments above an item, each with what preceded it on its source line
\* and a newline after it.
RECURSIVE WriteBefore(_, _)
WriteBefore(c, nodes) ==
  IF nodes = <<>> THEN <<>>
  ELSE LinePrefix(c, Head(nodes).s) \o Slice(c, Head(nodes).s, Head(nodes).e)
         \o <<NL>> \o WriteBefore(c, Tail(nodes))

\* A variant of the pass that writes an item's own comma and adds none.
WriteItemOwnComma(c, kind, reg, sorted, i, isSingleLine, commonIndent) ==
  LET it == sorted[i]
      isLast == i = Len(sorted)
      lead == IF isSingleLine
              THEN (IF i = 1 THEN <<NL>> \o commonIndent ELSE <<>>)
              ELSE WriteBefore(c, it.beforeNodes) \o commonIndent
      comma == IF ~isLast
               THEN (IF it.hasComma /\ it.commaNode # NoNode
                     THEN Slice(c, it.commaNode.s, it.commaNode.e)
                     ELSE <<>>)
                    \o (IF isSingleLine THEN <<SP>> ELSE <<>>)
               ELSE (IF OriginalLastHasComma(c, kind, reg)
                     THEN <<COMMA>> ELSE <<>>)
      after == IF it.afterNode # NoNode
               THEN <<SP>> \o Slice(c, it.afterNode.s, it.afterNode.e)
               ELSE <<>>
      sep == IF ~isSingleLine /\ ~isLast
             THEN <<NL>> \o (IF reg.sortConfig.WithNewLine THEN <<NL>> ELSE <<>>)
             ELSE <<>>
  IN lead \o Slice(c, it.node.s, it.node.e) \o comma \o after \o sep

\* One pass of the loop that writes the sorted items.
WriteItem(c, kind, reg, sorted, i, isSingleLine, commonIndent) ==
  LET it == sorted[i]
      isLast == i = Len(sorted)
      lead == IF isSingleLine
              THEN (IF i = 1 THEN <<NL>> \o commonIndent ELSE <<>>)
              ELSE WriteBefore(c, it.beforeNodes) \o commonIndent
      comma == IF ~isLast
               THEN (IF it.hasComma /\ it.commaNode # NoNode
                     THEN Slice(c, it.commaNode.s, it.commaNode.e)
                     ELSE <<COMMA>>)
                    \o (IF isSingleLine THEN <<SP>> ELSE <<>>)
               ELSE (IF OriginalLastHasComma(c, kind, reg)
                     THEN <<COMMA>> ELSE <<>>)
      after == IF it.afterNode # NoNode
               THEN <<SP>> \o Slice(c, it.afterNode.s, it.afterNode.e)
               ELSE <<>>
      sep == IF ~isSingleLine /\ ~isLast
             THEN <<NL>> \o (IF reg.sortConfig.WithNewLine THEN <<NL>> ELSE <<>>)
             ELSE <<>>
  IN lead \o Slice(c, it.node.s, it.node.e) \o comma \o after \o sep

RECURSIVE WriteItems(_, _, _, _, _, _, _)
WriteItems(c, kind, reg, sorted, i, isSingleLine, commonIndent) ==
  IF i > Len(sorted) THEN <<>>
  ELSE WriteItem(c, kind, reg, sorted, i, isSingleLine, commonIndent)
         \o WriteItems(c, kind, reg, sorted, i + 1, isSingleLine, commonIndent)

\* The three reconstruct functions share this shape; only the array one has
\* the single-line layout.
Reconstruct(c, kind, reg, sorted) ==
  LET kids == Children(c, reg.node)
      isSingleLine ==
        kind = "array" /\ Len(sorted) > 0
        /\ StartRow(c, sorted[1].node) = EndRow(c, sorted[Len(sorted)].node)
      commonIndent == CommonIndent(c, kind, reg)
      \* children 0 .. magicIndex with the bytes between them
      head == Slice(c, reg.node.s, kids[reg.magicIndex].e)
      afterMagic == IF reg.magicIndex + 1 <= Len(kids) /\ ~isSingleLine
                    THEN <<NL>> ELSE <<>>
      close == LastOfType(c, kids, Len(kids), Closer(kind))
      spacing == OriginalSpacing(c, kind, reg)
      tail == IF close > 1
              THEN (IF spacing # <<>> THEN spacing ELSE <<NL>>)
                     \o Slice(c, kids[close].s, kids[close].e)
              ELSE <<>>
  IN head \o afterMagic
       \o WriteItems(c, kind, reg, sorted, 1, isSingleLine, commonIndent)
       \o tail

reconstructObjectAST(c, obj, sortedProps) ==
  Reconstruct(c, "object", obj, sortedProps)
reconstructArrayAST(c, arr, sortedElems) ==
  Reconstruct(c, "array", arr, sortedElems)
reconstructConstructorAST(c, constr, sortedParams) ==
  Reconstruct(c, "formal_parameters", constr, sortedParams)

---------------------------------------------------------------------------
(* Sorting one region *)

Unchanged(its) ==
  [changed |-> FALSE, out |-> <<>>, items |-> its, sorted |-> its,
   alreadySorted |-> TRUE]

\* A comparison by key that leaves the annotation state out.
KeysAlone(its, sorted, dep) ==
  \A i \in 1 .. Len(its) : its[i].key = sorted[i].key

\* The comparison of the extracted order with the sorted one, for objects
\* and parameter lists: by key, and by flag under deprecated-at-end.
SameKeys(its, sorted, dep) ==
  \A i \in 1 .. Len(its) :
    /\ its[i].key = sorted[i].key
    /\ dep => its[i].isDeprecated = sorted[i].isDeprecated

\* The same for arrays: by node.
SameNodes(its, sorted) == \A i \in 1 .. Len(its) : its[i].node = sorted[i].node

\* "if alreadySorted && !needsFormatting { return nil, false }", with
\* needsFormatting := alreadySorted && check...FormattingNeeded(...).
Outcome(its, sorted, alreadySorted, formattingNeeded, out) ==
  IF alreadySorted /\ ~(alreadySorted /\ formattingNeeded)
  THEN [Unchanged(its) EXCEPT !.sorted = sorted]
  ELSE [changed |-> TRUE, out |-> out, items |-> its, sorted |-> sorted,
        alreadySorted |-> alreadySorted]

sortedObject(c, obj, properties, sorted) ==
  Outcome(properties, sorted,
          SameKeys(properties, sorted, obj.sortConfig.DeprecatedAtEnd),
          checkFormattingNeeded(c, obj, properties),
          reconstructObjectAST(c, obj, sorted))

extractedObject(c, obj, properties) ==
  IF Len(properties) <= 1 THEN Unchanged(properties)
  ELSE sortedObject(c, obj, properties,
         sortSlice(properties, "object", obj.sortConfig.DeprecatedAtEnd))

sortObjectAST(c, obj) == extractedObject(c, obj, extractPropertiesAST(c, obj))

sortedArray(c, arr, elements, sorted) ==
  Outcome(elements, sorted, SameNodes(elements, sorted),
          checkArrayFormattingNeeded(c, arr, elements),
          reconstructArrayAST(c, arr, sorted))

keyedArray(c, arr, elements) ==
  sortedArray(c, arr, elements,
    sortSlice(elements, "array", arr.sortConfig.DeprecatedAtEnd))

extractedArray(c, arr, extracted) ==
  IF Len(extracted) <= 1 THEN Unchanged(extracted)
  ELSE keyedArray(c, arr, WithSortKeys(c, extracted, arr.sortConfig.Key))

sortArrayAST(c, arr) == extractedArray(c, arr, extractArrayElementsAST(c, arr))

sortedConstructor(c, constr, params, sorted) ==
  Outcome(params, sorted,
          SameKeys(params, sorted, constr.sortConfig.DeprecatedAtEnd),
          checkConstructorFormattingNeeded(c, constr, params),
          reconstructConstructorAST(c, constr, sorted))

extractedConstructor(c, constr, params) ==
  IF Len(params) <= 1 THEN Unchanged(params)
  ELSE sortedConstructor(c, constr, params,
         sortSlice(params, "formal_parameters", constr.sortConfig.DeprecatedAtEnd))

sortConstructorAST(c, constr) ==
  extractedConstructor(c, constr, extractConstructorParamsAST(c, constr))

\* The dispatch on isArray / isConstructor in both passes of ProcessFileAST.
SortRegion(c, reg) ==
  IF reg.kind = "array" THEN sortArrayAST(c, reg)
  ELSE IF reg.kind = "formal_parameters" THEN sortConstructorAST(c, reg)
  ELSE sortObjectAST(c, reg)

---------------------------------------------------------------------------
(* ProcessFileAST *)

\* magicCommentRegex.Match(content): some marker comment is in the file.
HasMagic(c) == \E i \in 1 .. Len(c) : IsMagic(c[i])

\* The combined list: objects, then arrays, then constructors.
Sortables(c) ==
  findObjectsWithMagicCommentsAST(c) \o findArraysWithMagicCommentsAST(c)
    \o findConstructorsWithMagicCommentsAST(c)

\* sort.Slice(items, startByte descending); the start bytes are distinct.
RECURSIVE ByStartDesc(_)
ByStartDesc(rs) ==
  IF rs = <<>> THEN <<>>
  ELSE LET m == CHOOSE i \in 1 .. Len(rs) :
                  \A j \in 1 .. Len(rs) : rs[j].node.s <= rs[i].node.s
       IN <<rs[m]>> \o ByStartDesc(SubSeq(rs, 1, m - 1) \o SubSeq(rs, m + 1, Len(rs)))

\* The first pass: every region with what sorting it gives.
FirstPass(c, its) ==
  [i \in 1 .. Len(its) |->
     [reg |-> its[i], startByte |-> its[i].node.s, endByte |-> its[i].node.e,
      res |-> SortRegion(c, its[i])]]

NeedSort(rs) == Cardinality({i \in 1 .. Len(rs) : rs[i].res.changed})

ZeroResult == [Changed |-> FALSE, ObjectsFound |-> 0, ObjectsNeedSort |-> 0]

\* tree-sitter's recovery from unbalanced text is not modelled: a call is
\* followed only on text whose delimiters balance.
Partner(t) == IF t = "}" THEN "{" ELSE IF t = "]" THEN "[" ELSE "("

Balanced(c) ==
  /\ Nesting(c, 1, Len(c)) = 0
  /\ \A j \in 1 .. Len(c) :
       /\ Nesting(c, 1, j) >= 0
       /\ c[j].t \in Closers =>
            LET opens == {i \in 1 .. j - 1 :
                           c[i].t \in Openers /\ Nesting(c, i, j) = 0}
            IN opens # {}
               /\ c[Greatest(opens)].t = Partner(c[j].t)

Summary(res, in, out, wrote) ==
  [Changed |-> res.Changed, ObjectsNeedSort |-> res.ObjectsNeedSort,
   ObjectsFound |-> res.ObjectsFound, in |-> in, out |-> out, wrote |-> wrote]

\* The regions of the file in the order they are visited; none when the
\* marker's text is nowhere in the file.
FoundRegions(c) == IF HasMagic(c) THEN ByStartDesc(Sortables(c)) ELSE <<>>

\* The ProcessResult of a call, from what the first pass found.
ReportFrom(first) ==
  [Changed |-> NeedSort(first) > 0, ObjectsFound |-> Len(first),
   ObjectsNeedSort |-> NeedSort(first)]
ReportOf(c) == ReportFrom(FirstPass(c, FoundRegions(c)))

\* What the call knows when the first pass is over.
AfterFirstPass(first) ==
  IF first = <<>>
  THEN /\ result' = ZeroResult
       /\ regs' = <<>>
       /\ items' = <<>>
       /\ pc' = "done"
       /\ hist' = Append(hist, Summary(ZeroResult, disk, disk, FALSE))
  ELSE /\ result' = [Changed |-> NeedSort(first) > 0,
                     ObjectsFound |-> Len(first),
                     ObjectsNeedSort |-> NeedSort(first)]
       /\ regs' = first
       /\ items' = IF NeedSort(first) > 0 THEN first ELSE <<>>
       /\ pc' = "apply"
       /\ hist' = hist

\* ProcessFileAST up to the end of the first pass: read, early exits, parse,
\* find the regions, order them, count the ones that need sorting.
Begin ==
  /\ pc = "idle"
  /\ Balanced(disk)
  /\ content' = disk
  /\ newContent' = disk
  /\ AfterFirstPass(FirstPass(disk, FoundRegions(disk)))
  /\ UNCHANGED <<disk, cfgWrite, run, tieBreak>>
  /\ UNCHANGED poolVars

\* The region's result replaces [start, end) of newContent.  newContent[end:]
\* with end beyond len(newContent) is a run-time panic.
SpliceIn(item, res) ==
  IF res.changed /\ item.endByte > Len(newContent) + 1
  THEN /\ pc' = "panic"
       /\ UNCHANGED <<newContent, items>>
  ELSE /\ newContent' =
            IF res.changed
            THEN Slice(newContent, 1, item.startByte) \o res.out
                   \o Slice(newContent, item.endByte, Len(newContent) + 1)
            ELSE newContent
       /\ items' = Tail(items)
       /\ pc' = pc

\* One iteration of the second pass: the region is sorted again from the
\* buffer that was read.
Splice ==
  /\ pc = "apply"
  /\ items # <<>>
  /\ SpliceIn(Head(items), SortRegion(content, Head(items).reg))
  /\ UNCHANGED <<disk, cfgWrite, content, result, regs, run, hist, tieBreak>>
  /\ UNCHANGED poolVars

\* A variant of the end of the call that writes the file whenever Changed is
\* set, whatever config.Write says.
FinishAlwaysWrites ==
  /\ pc = "apply"
  /\ items = <<>>
  /\ disk' = IF result.Changed THEN newContent ELSE disk
  /\ hist' = Append(hist, Summary(result, content, newContent, result.Changed))
  /\ pc' = "done"
  /\ UNCHANGED <<cfgWrite, content, newContent, items, result, regs, run, tieBreak>>
  /\ UNCHANGED poolVars

\* The end of ProcessFileAST: the file is written when Changed and Write.
Finish ==
  /\ pc = "apply"
  /\ items = <<>>
  /\ disk' = IF result.Changed /\ cfgWrite THEN newContent ELSE disk
  /\ hist' = Append(hist, Summary(result, content, newContent,
                                  result.Changed /\ cfgWrite))
  /\ pc' = "done"
  /\ UNCHANGED <<cfgWrite, content, newContent, items, result, regs, run, tieBreak>>
  /\ UNCHANGED poolVars

\* The caller runs ProcessFileAST on the same file once more.
Again ==
  /\ pc = "done"
  /\ run < MaxRuns
  /\ run' = run + 1
  /\ pc' = "idle"
  /\ UNCHANGED <<disk, cfgWrite, content, newContent, items, result, regs, hist,
               tieBreak>>
  /\ UNCHANGED poolVars

Next == Begin \/ Splice \/ Finish \/ Again

---------------------------------------------------------------------------
(* ProcessFileAST as one call on a file of a list *)

\* The err of a call that returned none.
NoError == "nil"

FileOutcome(res, err, text) ==
  [result |-> res, err |-> err, text |-> text, ok |-> TRUE]

\* The second pass on the regions `its`: every region that needs sorting is
\* sorted from the buffer c that was read and spliced into the working copy
\* nc at the offsets it had in c.  ok is false when newContent[end:] panics.
RECURSIVE SecondPass(_, _, _)
SpliceOne(c, nc, its, res) ==
  IF ~res.changed THEN SecondPass(c, nc, Tail(its))
  ELSE IF Head(its).endByte > Len(nc) + 1 THEN [ok |-> FALSE, text |-> nc]
  ELSE SecondPass(c,
         Slice(nc, 1, Head(its).startByte) \o res.out
           \o Slice(nc, Head(its).endByte, Len(nc) + 1),
         Tail(its))
SecondPass(c, nc, its) ==
  IF its = <<>> THEN [ok |-> TRUE, text |-> nc]
  ELSE SpliceOne(c, nc, its, SortRegion(c, Head(its).reg))

\* "if result.Changed && config.Write": the write, which the system may
\* refuse, and the return.
Applied(f, write, report, spliced) ==
  IF ~spliced.ok
  THEN [result |-> report, err |-> NoError, text |-> f.content, ok |-> FALSE]
  ELSE IF ~write THEN FileOutcome(report, NoError, f.content)
  ELSE IF f.io = "nowrite" THEN FileOutcome(report, "writing file", f.content)
  ELSE FileOutcome(report, NoError, spliced.text)

Processed(f, write, first) ==
  IF first = <<>> THEN FileOutcome(ZeroResult, NoError, f.content)
  ELSE IF NeedSort(first) = 0
       THEN FileOutcome(ReportFrom(first), NoError, f.content)
  ELSE Applied(f, write, ReportFrom(first),
               SecondPass(f.content, f.content, first))

\* ProcessFileAST(filePath, config) on the file f: what it returns and the
\* bytes the file has afterwards.  f.io says what the system refuses: the
\* read ("noread"), the parse ("noparse"), the write ("nowrite") or nothing.
ProcessFileAST(f, write) ==
  IF f.io = "noread" THEN FileOutcome(ZeroResult, "reading file", f.content)
  ELSE IF ~HasMagic(f.content) THEN FileOutcome(ZeroResult, NoError, f.content)
  ELSE IF f.io = "noparse"
       THEN FileOutcome(ZeroResult, "parsing file", f.content)
  ELSE Processed(f, write, FirstPass(f.content, FoundRegions(f.content)))

---------------------------------------------------------------------------
(* processFilesParallel *)

\* "workerCount := config.Workers; if workerCount == 0 { runtime.NumCPU() }"
workerCount == IF cfgWorkers = 0 THEN numCPU ELSE cfgWorkers

ZeroStats(n) ==
  [totalFiles |-> n, filesNeedSort |-> 0, filesNoChanges |-> 0,
   errorFiles |-> 0, totalObjects |-> 0, objectsNeedSort |-> 0]

Idle == [st |-> "recv", file |-> 0]

\* "make(chan string, len(files))" and "make(chan fileResult, len(files))":
\* the number of values a channel holds before a send on it waits.  The
\* variant sizes the result channel by the number of workers.
FileChanCap == Len(fsys)
ResultCapByWorkers == workerCount
ResultChanCap == Len(fsys)

\* "for _, file := range files { fileChan <- file }": the send waits while
\* fileChan is full.
Send ==
  /\ mainPc = "send"
  /\ sent < Len(fsys)
  /\ Len(fileChan) < FileChanCap
  /\ fileChan' = Append(fileChan, sent + 1)
  /\ sent' = sent + 1
  /\ UNCHANGED <<fsys, cfgWorkers, numCPU, chanClosed, workers, resultChan,
                 mainPc, fileStats, errors, needsSorting, ret, calls>>
  /\ UNCHANGED <<cfgWrite, fileVars>>

\* close(fileChan), then wg.Wait()
CloseFiles ==
  /\ mainPc = "send"
  /\ sent = Len(fsys)
  /\ chanClosed' = TRUE
  /\ mainPc' = "wait"
  /\ UNCHANGED <<fsys, cfgWorkers, numCPU, sent, fileChan, workers, resultChan,
                 fileStats, errors, needsSorting, ret, calls>>
  /\ UNCHANGED <<cfgWrite, fileVars>>

\* "for file := range fileChan": a worker takes the next file.
Receive(w) ==
  /\ mainPc # "crashed"
  /\ workers[w].st = "recv"
  /\ fileChan # <<>>
  /\ workers' = [workers EXCEPT ![w] = [st |-> "work", file |-> Head(fileChan)]]
  /\ fileChan' = Tail(fileChan)
  /\ UNCHANGED <<fsys, cfgWorkers, numCPU, sent, chanClosed, resultChan, mainPc,
                 fileStats, errors, needsSorting, ret, calls>>
  /\ UNCHANGED <<cfgWrite, fileVars>>

\* The range loop ends when fileChan is closed and empty: wg.Done().
Exit(w) ==
  /\ mainPc # "crashed"
  /\ workers[w].st = "recv"
  /\ fileChan = <<>>
  /\ chanClosed
  /\ workers' = [workers EXCEPT ![w] = [st |-> "exit", file |-> 0]]
  /\ UNCHANGED <<fsys, cfgWorkers, numCPU, sent, fileChan, chanClosed,
                 resultChan, mainPc, fileStats, errors, needsSorting, ret, calls>>
  /\ UNCHANGED <<cfgWrite, fileVars>>

\* The worker's call has returned `out` for its file: the result goes to
\* resultChan.  A panic in a goroutine ends the process.
Worked(w, file, out) ==
  IF ~out.ok
  THEN /\ mainPc' = "crashed"
       /\ UNCHANGED <<fsys, workers, resultChan, calls>>
  ELSE /\ fsys' = [fsys EXCEPT ![file].content = out.text]
       /\ resultChan' =
            Append(resultChan,
                   [file |-> file, changed |-> out.result.Changed,
                    err |-> out.err, objectsFound |-> out.result.ObjectsFound,
                    objectsNeedSort |-> out.result.ObjectsNeedSort])
       /\ workers' = [workers EXCEPT ![w] = Idle]
       /\ calls' = Append(calls, [file |-> file, worker |-> w, err |-> out.err])
       /\ mainPc' = mainPc

\* The body of the worker's loop: the call, and the send of its result,
\* which waits while resultChan is full.
Work(w) ==
  /\ mainPc # "crashed"
  /\ workers[w].st = "work"
  /\ Len(resultChan) < ResultChanCap
  /\ Worked(w, workers[w].file, ProcessFileAST(fsys[workers[w].file], cfgWrite))
  /\ UNCHANGED <<cfgWorkers, numCPU, sent, fileChan, chanClosed, fileStats,
                 errors, needsSorting, ret>>
  /\ UNCHANGED <<cfgWrite, fileVars>>

\* wg.Wait() returns when every worker is done; close(resultChan).
WaitDone ==
  /\ mainPc = "wait"
  /\ \A w \in DOMAIN workers : workers[w].st = "exit"
  /\ mainPc' = "collect"
  /\ UNCHANGED <<fsys, cfgWorkers, numCPU, sent, fileChan, chanClosed, workers,
                 resultChan, fileStats, errors, needsSorting, ret, calls>>
  /\ UNCHANGED <<cfgWrite, fileVars>>

\* One pass of "for result := range resultChan".
Collected(r) ==
  IF r.err # NoError
  THEN /\ errors' = Append(errors, [file |-> r.file, err |-> r.err])
       /\ fileStats' = [fileStats EXCEPT !.errorFiles = @ + 1]
       /\ UNCHANGED needsSorting
  ELSE /\ fileStats' =
            [fileStats EXCEPT
               !.totalObjects = @ + r.objectsFound,
               !.objectsNeedSort = @ + r.objectsNeedSort,
               !.filesNeedSort = IF r.changed THEN @ + 1 ELSE @,
               !.filesNoChanges = IF r.changed THEN @ ELSE @ + 1]
       /\ needsSorting' = (needsSorting \/ r.changed)
       /\ UNCHANGED errors

CollectAbort ==
  /\ mainPc = "collect"
  /\ resultChan # <<>>
  /\ Collected(Head(resultChan))
  /\ resultChan' = IF Head(resultChan).err # NoError THEN <<>> ELSE Tail(resultChan)
  /\ UNCHANGED <<fsys, cfgWorkers, numCPU, sent, fileChan, chanClosed, workers,
                 mainPc, ret, calls>>
  /\ UNCHANGED <<cfgWrite, fileVars>>

Collect ==
  /\ mainPc = "collect"
  /\ resultChan # <<>>
  /\ Collected(Head(resultChan))
  /\ resultChan' = Tail(resultChan)
  /\ UNCHANGED <<fsys, cfgWorkers, numCPU, sent, fileChan, chanClosed, workers,
                 mainPc, ret, calls>>
  /\ UNCHANGED <<cfgWrite, fileVars>>

NoReturn == [needsSorting |-> FALSE, err |-> NoError, file |-> 0]

\* "return needsSorting.Load(), errors[0]" or "..., nil"
Return ==
  /\ mainPc = "collect"
  /\ resultChan = <<>>
  /\ ret' = IF errors # <<>>
            THEN [needsSorting |-> needsSorting, err |-> errors[1].err,
                  file |-> errors[1].file]
            ELSE [needsSorting |-> needsSorting, err |-> NoError, file |-> 0]
  /\ mainPc' = "done"
  /\ UNCHANGED <<fsys, cfgWorkers, numCPU, sent, fileChan, chanClosed, workers,
                 resultChan, fileStats, errors, needsSorting, calls>>
  /\ UNCHANGED <<cfgWrite, fileVars>>

NextPool ==
  \/ Send
  \/ CloseFiles
  \/ \E w \in DOMAIN workers : Receive(w)
  \/ \E w \in DOMAIN workers : Exit(w)
  \/ \E w \in DOMAIN workers : Work(w)
  \/ WaitDone
  \/ Collect
  \/ Return

\* No run of processFilesParallel is followed.
NoPool ==
  /\ fsys = <<>>
  /\ cfgWorkers = 0
  /\ numCPU = 1
  /\ sent = 0
  /\ fileChan = <<>>
  /\ chanClosed = FALSE
  /\ workers = <<>>
  /\ resultChan = <<>>
  /\ mainPc = "done"
  /\ fileStats = ZeroStats(0)
  /\ errors = <<>>
  /\ needsSorting = FALSE
  /\ ret = NoReturn
  /\ calls = <<>>

---------------------------------------------------------------------------
(* The modular processor: Processor.ProcessContent and the sorters,        *)
(* strategies and reconstructors it drives                                 *)

\* config.ParseSortConfig on the bytes read for the marker: nothing is set
\* when those bytes do not hold the marker's words.
ParseSortConfig(a) ==
  [WithNewLine |-> IsMagic(a) /\ "with-new-line" \in a.o,
   DeprecatedAtEnd |-> IsMagic(a) /\ "deprecated-at-end" \in a.o,
   Key |-> IF IsMagic(a) THEN a.k ELSE <<>>,
   SortByComment |-> IsMagic(a) /\ "sort-by-comment" \in a.o]

\* SortConfig.Validate() returns no error.
Validate(cfg) == ~(cfg.Key # <<>> /\ cfg.SortByComment)

\* The first direct child that is a marker comment with a valid
\* configuration (0 when there is none): the finders "continue" over a
\* marker whose configuration is in conflict.
RECURSIVE FirstValidMagic(_, _, _)
FirstValidMagic(c, kids, i) ==
  IF i > Len(kids) THEN 0
  ELSE IF NodeType(c, kids[i]) = "comment" /\ IsMagic(c[kids[i].s])
          /\ Validate(ParseSortConfig(c[kids[i].s]))
       THEN i
  ELSE FirstValidMagic(c, kids, i + 1)

\* parser.FindObjectsWithMagicComments / FindArraysWithMagicComments: the
\* sorters of every node of the type, in pre-order.
RECURSIVE FindWithMagicComments(_, _, _)
RECURSIVE FindInKids(_, _, _, _)
FindWithMagicComments(c, n, type) ==
  LET kids == Children(c, n)
      mi == FirstValidMagic(c, kids, 1)
      here == IF NodeType(c, n) = type /\ mi > 0
              THEN <<[kind |-> type, node |-> n, magicIndex |-> mi]>>
              ELSE <<>>
  IN here \o FindInKids(c, kids, 1, type)
FindInKids(c, kids, i, type) ==
  IF i > Len(kids) THEN <<>>
  ELSE FindWithMagicComments(c, kids[i], type) \o FindInKids(c, kids, i + 1, type)

\* strategies.Factory.CreateStrategy: the name of the strategy.
CreateStrategy(cfg) ==
  IF cfg.SortByComment THEN "comment-content"
  ELSE IF cfg.Key # <<>> THEN "array-key"
  ELSE "property-name"

\* common.ExtractKeyFromNode(keyNode, content): the type is the node's, the
\* bytes are the ones the buffer has at the node's offsets.
ExtractKeyFromNode(c, buf, keyNode) ==
  LET text == IF buf[keyNode.s].t = "key" THEN buf[keyNode.s].k
              ELSE AtomText(buf[keyNode.s])
  IN IF NodeType(c, keyNode) = "string" THEN TrimQuotes(text) ELSE text

\* ObjectSorter.Extract and ArraySorter.Extract: the children are those of
\* the sorter's node, in the tree of c; the bytes read are those of buf.
RECURSIVE Extract(_, _, _, _, _, _)
Extract(c, buf, kind, kids, i, pendingComments) ==
  IF i > Len(kids) THEN <<>>
  ELSE LET child == kids[i]
           type == NodeType(c, child)
       IN IF type = "comment"
          THEN Extract(c, buf, kind, kids, i + 1, Append(pendingComments, child))
          ELSE IF IsPrimary(kind, type)
          THEN LET la == LookAhead(c, kind, kids, i + 1, child,
                           [hasComma |-> FALSE, commaNode |-> NoNode,
                            afterNode |-> NoNode, lastNode |-> child, j |-> 0])
                   dep == hasDeprecatedAnnotation(buf, pendingComments)
                          \/ (la.afterNode # NoNode
                              /\ hasDeprecatedAnnotation(buf, <<la.afterNode>>))
                   key == IF kind = "object"
                          THEN ExtractKeyFromNode(c, buf, Node(child.s, child.s + 1))
                          ELSE <<>>
               IN <<[node |-> child, key |-> key,
                     beforeNodes |-> pendingComments,
                     afterNode |-> la.afterNode, hasComma |-> la.hasComma,
                     commaNode |-> la.commaNode, isDeprecated |-> dep,
                     sortKey |-> key]>>
                    \o Extract(c, buf, kind, kids, la.j, <<>>)
          ELSE Extract(c, buf, kind, kids, i + 1, pendingComments)

\* GetSortKey under the property-name strategy: a property's key; for an
\* element strings.TrimSpace and TrimQuotes of the bytes at its offsets.
GetSortKey(buf, kind, item) ==
  IF kind = "object" THEN item.key
  ELSE TrimQuotes(TrimRight(TrimLeft(NodeText(buf, item.node), {32, 10}),
                            {32, 10}))

\* ObjectSorter.Sort and ArraySorter.Sort: the keys are set on the items,
\* and a copy is sorted with the less function of the kind.
SortItems(buf, kind, its, deprecatedAtEnd) ==
  IF Len(its) <= 1 THEN its
  ELSE sortSlice([i \in 1 .. Len(its) |->
                    [its[i] EXCEPT !.sortKey = GetSortKey(buf, kind, its[i])]],
                 kind, deprecatedAtEnd)

\* CheckIfSorted: properties are compared by sort key (and flag), elements
\* by node.
CheckIfSorted(buf, kind, its, sorted, deprecatedAtEnd) ==
  \/ Len(its) <= 1
  \/ \A i \in 1 .. Len(its) :
       IF kind = "object"
       THEN /\ GetSortKey(buf, kind, its[i]) = sorted[i].sortKey
            /\ deprecatedAtEnd => its[i].isDeprecated = sorted[i].isDeprecated
       ELSE its[i].node = sorted[i].node

\* "for _, comment := range prop.BeforeNodes": indentation, comment, newline.
RECURSIVE WriteBeforeNodes(_, _)
WriteBeforeNodes(buf, nodes) ==
  IF nodes = <<>> THEN <<>>
  ELSE <<SP, SP>> \o Slice(buf, Head(nodes).s, Head(nodes).e) \o <<NL>>
         \o WriteBeforeNodes(buf, Tail(nodes))

\* The loop "for i, item := range sortedItems" of the two reconstructors;
\* writeIndentation writes two spaces.
RECURSIVE WriteSorted(_, _, _, _)
WriteSorted(buf, sortedItems, i, withNewLine) ==
  IF i > Len(sortedItems) THEN <<>>
  ELSE LET item == sortedItems[i]
       IN (IF i = 1 /\ ~withNewLine THEN <<SP>> ELSE <<NL>>)
            \o WriteBeforeNodes(buf, item.beforeNodes)
            \o <<SP, SP>> \o Slice(buf, item.node.s, item.node.e)
            \o (IF item.hasComma THEN <<COMMA>> ELSE <<>>)
            \o (IF item.afterNode # NoNode
                THEN <<SP>> \o Slice(buf, item.afterNode.s, item.afterNode.e)
                ELSE <<>>)
            \o WriteSorted(buf, sortedItems, i + 1, withNewLine)

\* ObjectReconstructor.Reconstruct and ArrayReconstructor.Reconstruct: the
\* whole buffer with the node's byte range rewritten.  The children up to
\* the marker and the gaps between them are the bytes from the end of the
\* opening delimiter to the end of the marker.
ReconstructBuffer(c, buf, s, sortedItems, cfg) ==
  LET kids == Children(c, s.node)
      closer == kids[Len(kids)]
  IN Slice(buf, 1, s.node.s)
       \o <<Tok(IF s.kind = "object" THEN "{" ELSE "[")>>
       \o Slice(buf, kids[1].e, kids[s.magicIndex].e)
       \o WriteSorted(buf, sortedItems, 1, cfg.WithNewLine)
       \o (IF sortedItems # <<>> THEN <<NL>> ELSE <<>>)
       \o Slice(buf, closer.s, closer.e)
       \o Slice(buf, s.node.e, Len(buf) + 1)

\* What one call of processSortable gives: the buffer it returns, an error,
\* or a fault: a byte range that ends beyond len(content), which is a
\* run-time panic or bytes of the slice's spare capacity.
Returned(text) == [text |-> text, err |-> FALSE, fault |-> FALSE]
Faulted(text) == [text |-> text, err |-> FALSE, fault |-> TRUE]

\* The end of the last byte range read before the reconstructor is called:
\* the marker, the comments taken with the items, the keys of properties,
\* and the elements when there is more than one.
ReadEnd(s, magic, its) ==
  Greatest({magic.e}
    \cup UNION {{its[i].beforeNodes[k].e : k \in 1 .. Len(its[i].beforeNodes)} :
                  i \in 1 .. Len(its)}
    \cup {its[i].afterNode.e : i \in 1 .. Len(its)}
    \cup {IF s.kind = "object" THEN its[i].node.s + 1
          ELSE IF Len(its) > 1 THEN its[i].node.e ELSE 0 : i \in 1 .. Len(its)})

\* processSortable from the sort on.
Sortable(c, buf, s, cfg, its, sorted) ==
  IF CheckIfSorted(buf, s.kind, its, sorted, cfg.DeprecatedAtEnd)
  THEN Returned(buf)
  ELSE IF s.node.e > Len(buf) + 1 THEN Faulted(buf)
  ELSE Returned(ReconstructBuffer(c, buf, s, sorted, cfg))

Extracted(c, buf, s, cfg, its) ==
  Sortable(c, buf, s, cfg, its, SortItems(buf, s.kind, its, cfg.DeprecatedAtEnd))

Configured(c, buf, s, cfg) ==
  IF ~Validate(cfg) THEN [text |-> buf, err |-> TRUE, fault |-> FALSE]
  ELSE Extracted(c, buf, s, cfg,
                 Extract(c, buf, s.kind, Children(c, s.node),
                         s.magicIndex + 1, <<>>))

\* Processor.processSortable(sortable, content): the sorter holds a node of
\* the tree of c, the bytes are those of buf.  Only the property-name
\* strategy is followed.
processSortable(c, buf, s) ==
  IF ReadEnd(s, Children(c, s.node)[s.magicIndex],
             Extract(c, c, s.kind, Children(c, s.node), s.magicIndex + 1, <<>>))
       > Len(buf) + 1
  THEN Faulted(buf)
  ELSE Configured(c, buf, s,
                  ParseSortConfig(buf[Children(c, s.node)[s.magicIndex].s]))

\* The sorters ProcessContent goes through: the objects, then the arrays.
Sorters(c) ==
  FindInKids(c, RootKids(c), 1, "object") \o FindInKids(c, RootKids(c), 1, "array")

\* ProcessContent(content) up to the first loop: the parse, the copy
\* "result := make([]byte, len(content)); copy(result, content)" (the
\* working copy is newContent here) and the sorters found on the tree.
ParseContent ==
  /\ pc = "idle"
  /\ Balanced(disk)
  /\ content' = disk
  /\ newContent' = disk
  /\ items' = Sorters(disk)
  /\ pc' = "sortables"
  /\ UNCHANGED <<disk, cfgWrite, result, regs, run, hist, tieBreak>>
  /\ UNCHANGED poolVars

\* One iteration of "for _, objectSorter := range objects" or of the loop
\* over the arrays: "result = updated".
Updated(out) ==
  /\ pc' = IF out.fault THEN "fault" ELSE IF out.err THEN "error" ELSE pc
  /\ newContent' = out.text
  /\ items' = Tail(items)

ProcessSortable ==
  /\ pc = "sortables"
  /\ items # <<>>
  /\ Updated(processSortable(content, newContent, Head(items)))
  /\ UNCHANGED <<disk, cfgWrite, content, result, regs, run, hist, tieBreak>>
  /\ UNCHANGED poolVars

\* "return result, nil"
ReturnContent ==
  /\ pc = "sortables"
  /\ items = <<>>
  /\ pc' = "returned"
  /\ UNCHANGED <<disk, cfgWrite, content, newContent, items, result, regs, run,
               hist, tieBreak>>
  /\ UNCHANGED poolVars

NextModular == ParseContent \/ ProcessSortable \/ ReturnContent

---------------------------------------------------------------------------
(* The files the calls are followed on *)

\* The largest number of items in a region.
MaxItems == 3
\* The largest number of blank-line-separated newlines between two items.
MaxGap == 2
\* The largest number of comments (beside deprecation marks) in a region.
MaxComments == 2

LetterA == <<97>>
LetterB == <<98>>
Nine == <<57>>
Ten == <<49, 48>>
\* A string literal whose first character lies beyond U+FFFF.
Astral == <<34, 128512, 34>>
QuotedA == <<34, 97, 34>>
NameKey == <<110>>
IdKey == <<105>>

Spaces(n) == [i \in 1 .. n |-> SP]
Newlines(n) == [i \in 1 .. n |-> NL]

Opener(kind) ==
  Tok(IF kind = "object" THEN "{" ELSE IF kind = "array" THEN "[" ELSE "(")
CloserTok(kind) ==
  Tok(IF kind = "object" THEN "}" ELSE IF kind = "array" THEN "]" ELSE ")")

\* The comments an item description asks for, each with a text of its own.
DepComment(i) == Cmt(<<DeprecatedWord, 48 + i>>)
LeadComment(i) == Cmt(<<108, 48 + i>>)
TrailComment(i) == Cmt(<<116, 48 + i>>)
SecondComment(i) == Cmt(<<117, 48 + i>>)
TailComment == Cmt(<<122>>)

CommentSlots == {"none", "lead", "after", "before", "two"}
SlotCount(cm) == IF cm = "none" THEN 0 ELSE IF cm = "two" THEN 2 ELSE 1

\* An item description: the item's atoms, whether a @deprecated comment
\* stands before it, and where its other comments stand.
Desc(atoms, dep, cm) == [atoms |-> atoms, dep |-> dep, cm |-> cm]

ItemAtoms(kind, k, i) ==
  IF kind = "object" THEN <<Key(k), SP, Lit(<<48 + i>>)>>
  ELSE IF kind = "array" THEN <<Lit(k)>>
  ELSE <<Param(k)>>

RECURSIVE OwnLines(_, _)
OwnLines(cs, ind) ==
  IF cs = <<>> THEN <<>> ELSE ind \o <<Head(cs), NL>> \o OwnLines(Tail(cs), ind)

RECURSIVE Inline(_)
Inline(cs) == IF cs = <<>> THEN <<>> ELSE <<Head(cs), SP>> \o Inline(Tail(cs))

RenderItem(d, i, n, lay, gap, lastComma, ind) ==
  LET pre == (IF d.dep THEN <<DepComment(i)>> ELSE <<>>)
               \o (IF d.cm = "lead" THEN <<LeadComment(i)>> ELSE <<>>)
      body == d.atoms
                \o (IF d.cm = "before" THEN <<SP, TrailComment(i)>> ELSE <<>>)
                \o (IF i < n \/ lastComma THEN <<COMMA>> ELSE <<>>)
                \o (IF d.cm = "after" THEN <<SP, TrailComment(i)>>
                    ELSE IF d.cm = "two"
                         THEN <<SP, TrailComment(i), SP, SecondComment(i)>>
                    ELSE <<>>)
  IN IF lay = "multi"
     THEN OwnLines(pre, ind) \o ind \o body \o Newlines(IF i < n THEN gap ELSE 1)
     ELSE Inline(pre) \o body \o (IF i < n THEN <<SP>> ELSE <<>>)

RECURSIVE RenderItems(_, _, _, _, _, _)
RenderItems(ds, i, lay, gap, lastComma, ind) ==
  IF i > Len(ds) THEN <<>>
  ELSE RenderItem(ds[i], i, Len(ds), lay, gap, lastComma, ind)
         \o RenderItems(ds, i + 1, lay, gap, lastComma, ind)

\* A marked region.  Layout "multi" puts every item on a line of its own,
\* "row" puts the items on one line under the marker, "inline" puts the
\* whole region on one line.
Region(kind, magic, lay, gap, lastComma, ds, tail, depth) ==
  LET ind == Spaces(depth + 1)
      its == RenderItems(ds, 1, lay, gap, lastComma, ind)
  IN IF lay = "multi"
     THEN <<Opener(kind), NL>> \o ind \o <<magic, NL>> \o its
            \o (IF tail THEN ind \o <<TailComment, NL>> ELSE <<>>)
            \o Spaces(depth) \o <<CloserTok(kind)>>
     ELSE IF lay = "row"
     THEN <<Opener(kind), NL>> \o ind \o <<magic, NL>> \o ind \o its
            \o (IF tail THEN <<SP, TailComment>> ELSE <<>>)
            \o <<NL>> \o Spaces(depth) \o <<CloserTok(kind)>>
     ELSE <<Opener(kind), SP, magic, SP>> \o its
            \o (IF tail THEN <<SP, TailComment>> ELSE <<>>)
            \o <<SP, CloserTok(kind)>>

FileOf(region) == <<Other(<<120>>), SP>> \o region \o <<Other(<<59>>), NL>>

Kinds == {"object", "array", "formal_parameters"}

KeyPool(kind) ==
  IF kind = "formal_parameters" THEN {LetterA, LetterB, <<66>>}
  ELSE {LetterA, Nine, Ten}

\* Sequences of length n over the set S.
SeqsOf(S, n) == [1 .. n -> S]

SortedMark == Magic({}, <<>>)
Options == {{}, {"deprecated-at-end"}}

\* Ordering: every arrangement of up to MaxItems keys, deprecated or not,
\* with and without deprecated-at-end.
OrderFiles ==
  UNION { UNION { { FileOf(Region(kind, Magic(o, <<>>), "multi", 1, TRUE,
                      [i \in 1 .. n |->
                         Desc(ItemAtoms(kind, ks[i][1], i), ks[i][2], "none")],
                      FALSE, 0)) :
                    ks \in SeqsOf(KeyPool(kind) \X BOOLEAN, n), o \in Options } :
                  n \in 0 .. MaxItems } :
          kind \in Kinds }

\* Layout and comments: two items in either order, in each layout, with the
\* comments in each position.
LayoutParams ==
  { p \in [kind : Kinds, lay : {"multi", "row", "inline"}, gap : 1 .. MaxGap,
           lastComma : BOOLEAN, wnl : BOOLEAN, swap : BOOLEAN, tail : BOOLEAN,
           cms : SeqsOf(CommentSlots, 2)] :
      /\ p.lay # "multi" => p.gap = 1
      /\ SlotCount(p.cms[1]) + SlotCount(p.cms[2]) + (IF p.tail THEN 1 ELSE 0)
           <= MaxComments }

LayoutFile(p) ==
  LET ks == IF p.swap THEN <<LetterB, LetterA>> ELSE <<LetterA, LetterB>>
  IN FileOf(Region(p.kind,
                   Magic(IF p.wnl THEN {"with-new-line"} ELSE {}, <<>>),
                   p.lay, p.gap, p.lastComma,
                   [i \in 1 .. 2 |->
                      Desc(ItemAtoms(p.kind, ks[i], i), FALSE, p.cms[i])],
                   p.tail, 0))

LayoutFiles == { LayoutFile(p) : p \in LayoutParams }

\* Deprecation marks in the one-line layouts.
DeprecatedRowFiles ==
  UNION { { FileOf(Region(kind, Magic({"deprecated-at-end"}, <<>>), lay, 1, FALSE,
              [i \in 1 .. 2 |->
                 Desc(ItemAtoms(kind, ks[i][1], i), ks[i][2], "none")],
              FALSE, 0)) :
            ks \in SeqsOf({LetterA, LetterB} \X BOOLEAN, 2),
            lay \in {"row", "inline"} } :
          kind \in Kinds }

\* Arrays of objects sorted by a key: the key is a plain string, a string
\* that starts beyond U+FFFF, or absent.
Element(name, value) ==
  <<Tok("{"), SP, Key(name), SP, Lit(value), SP, Tok("}")>>

ElementPool ==
  {Element(NameKey, QuotedA), Element(NameKey, Astral), Element(IdKey, Nine)}

KeyedFiles ==
  UNION { { FileOf(Region("array", Magic(o, NameKey), "multi", 1, TRUE,
              [i \in 1 .. n |-> Desc(es[i], FALSE, "none")], FALSE, 0)) :
            es \in SeqsOf(ElementPool, n), o \in Options } :
          n \in 2 .. MaxItems }

\* Arrays of objects whose marker sets both key and sort-by-comment, beside
\* a second marked array.
ConflictFiles ==
  { FileOf(Region("array", Magic({"sort-by-comment"}, NameKey), "multi", 1, TRUE,
             [i \in 1 .. 2 |-> Desc(es[i], FALSE, "after")], FALSE, 0)
           \o <<Other(<<59>>), NL, Other(<<121>>), SP>>
           \o Region("array", SortedMark, "multi", 1, TRUE,
                 [i \in 1 .. 2 |->
                    Desc(ItemAtoms("array", IF swap THEN <<LetterB, LetterA>>[i]
                                            ELSE <<LetterA, LetterB>>[i], i),
                         FALSE, "none")],
                 FALSE, 0)) :
      es \in SeqsOf(ElementPool, 2), swap \in BOOLEAN }

\* A region of two plain items, in order or not.
Plain(kind, swap, gap, depth) ==
  LET ks == IF swap THEN <<LetterB, LetterA>> ELSE <<LetterA, LetterB>>
  IN Region(kind, SortedMark, "multi", gap, TRUE,
            [i \in 1 .. 2 |-> Desc(ItemAtoms(kind, ks[i], i), FALSE, "none")],
            FALSE, depth)

\* Two marked regions one after the other.
SiblingFiles ==
  { FileOf(Plain(p.k1, p.s1, p.gap, 0) \o <<Other(<<59>>), NL, Other(<<121>>), SP>>
             \o Plain(p.k2, p.s2, 1, 0)) :
      p \in [k1 : Kinds, k2 : Kinds, s1 : BOOLEAN, s2 : BOOLEAN, gap : 1 .. MaxGap] }

\* A marked region that is an item of another marked region.
NestedFile(p) ==
  LET inner == Plain(p.inner, p.s2, p.gap, 1)
      first == IF p.outer = "object" THEN <<Key(LetterA), SP>> \o inner
               ELSE inner
      second == IF p.outer = "object" THEN <<Key(LetterB), SP, Lit(Nine)>>
                ELSE <<Lit(LetterA)>>
      ds == IF p.s1 THEN <<Desc(second, FALSE, "none"), Desc(first, FALSE, "none")>>
            ELSE <<Desc(first, FALSE, "none"), Desc(second, FALSE, "none")>>
  IN FileOf(Region(p.outer, SortedMark, "multi", 1, TRUE, ds, FALSE, 0))

NestedFiles ==
  { NestedFile(p) :
      p \in [outer : {"object", "array"}, inner : {"object", "array"},
             s1 : BOOLEAN, s2 : BOOLEAN, gap : 1 .. MaxGap] }

\* Files the early exits take: no marker, a marker outside any region, and
\* a region without a marker beside a comment that has the marker's text.
EarlyFiles ==
  { <<Other(<<120>>), NL>>,
    <<SortedMark, NL, Other(<<120>>), NL>>,
    <<SortedMark, NL>> \o FileOf(<<Tok("["), Lit(LetterB), COMMA, SP, Lit(LetterA), Tok("]")>>) }

\* The values the comparison of keys is tried on: the numbers 9 and 10,
\* the strings "9a" and "10", true, false and a name.
ComparePool ==
  {Nine, Ten, <<34, 57, 97, 34>>, <<34, 49, 48, 34>>, TRUEtxt, FALSEtxt, LetterA}

\* Marked arrays, sorted by key="i", of two objects { i: value }.
CompareFiles ==
  { FileOf(Region("array", Magic({}, IdKey), "multi", 1, TRUE,
             [i \in 1 .. 2 |-> Desc(Element(IdKey, es[i]), FALSE, "none")],
             FALSE, 0)) :
      es \in SeqsOf(ComparePool, 2) }

\* The elements the ordering of three keys is tried on: the keys 9, 10,
\* "1e" and false, and an element without the key.
TriplePool ==
  {Element(IdKey, Nine), Element(IdKey, Ten), Element(IdKey, <<34, 49, 101, 34>>),
   Element(IdKey, FALSEtxt), Element(NameKey, Nine)}

\* Marked arrays, sorted by key="i", of three such elements.
TripleFiles ==
  { FileOf(Region("array", Magic({}, IdKey), "multi", 1, TRUE,
             [i \in 1 .. 3 |-> Desc(es[i], FALSE, "none")],
             FALSE, 0)) :
      es \in SeqsOf(TriplePool, 3) }

\* Objects for the dotted key path "n.i": the path leads to a value, stops
\* at a value that is no object, lacks its second or its first segment, or
\* leads to an object.
Nested(name, inner) ==
  <<Tok("{"), SP, Key(name), SP>> \o inner \o <<SP, Tok("}")>>

PathPool ==
  { Nested(NameKey, Element(IdKey, Nine)), Element(NameKey, Ten),
    Nested(NameKey, Element(NameKey, Nine)), Element(IdKey, Nine),
    Nested(NameKey, Nested(IdKey, Element(IdKey, Nine))) }

PathKey == NameKey \o <<46>> \o IdKey

\* Marked arrays, sorted by key="n.i", of two such objects.
PathFiles ==
  { FileOf(Region("array", Magic({}, PathKey), "multi", 1, TRUE,
             [i \in 1 .. 2 |-> Desc(es[i], FALSE, "none")], FALSE, 0)) :
      es \in SeqsOf(PathPool, 2) }

\* Two items out of order, the second with a leading comment; the comment
\* and the second item each at the indentation of the first item or deeper.
IndentFiles ==
  { FileOf(<<Opener(kind), NL>> \o Spaces(1) \o <<SortedMark, NL>>
             \o Spaces(1) \o ItemAtoms(kind, LetterB, 1) \o <<COMMA, NL>>
             \o Spaces(d) \o <<LeadComment(2), NL>>
             \o Spaces(e) \o ItemAtoms(kind, LetterA, 2) \o <<COMMA, NL>>
             \o <<CloserTok(kind)>>) :
      kind \in Kinds, d \in 1 .. 2, e \in 1 .. 2 }

Files ==
  OrderFiles \cup LayoutFiles \cup DeprecatedRowFiles \cup KeyedFiles
    \cup SiblingFiles \cup NestedFiles \cup EarlyFiles \cup ConflictFiles
    \cup CompareFiles \cup PathFiles \cup IndentFiles \cup TripleFiles

---------------------------------------------------------------------------

\* Regions of more than MaxInsertion items: all keys equal but one.
BigItems == MaxInsertion + 1

BigFiles ==
  { FileOf(Region(kind, SortedMark, "multi", 1, TRUE,
             [i \in 1 .. BigItems |->
                Desc(ItemAtoms(kind, IF i = at THEN LetterB ELSE LetterA, i),
                     FALSE, "none")],
             FALSE, 0)) :
      kind \in Kinds, at \in 1 .. BigItems }

Start(files, ties) ==
  /\ disk \in files
  /\ tieBreak \in ties
  /\ cfgWrite \in BOOLEAN
  /\ pc = "idle"
  /\ content = <<>>
  /\ newContent = <<>>
  /\ items = <<>>
  /\ result = ZeroResult
  /\ regs = <<>>
  /\ run = 1
  /\ hist = <<>>
  /\ NoPool

\* No region of Files has more than MaxInsertion items, so that the build's
\* treatment of equal items does not show there.
Init == Start(Files, {"source"})

\* The files with a large region, under either treatment of equal items.
InitBig == Start(BigFiles, {"source", "reverse"})

\* The largest number of files in the list, and the largest worker count.
MaxFiles == 2
MaxWorkers == 2

\* The files of a list: one that needs sorting, one that is sorted, one
\* without a marker; each readable, parsable and writable or not.
PoolContents ==
  { FileOf(Plain("object", TRUE, 1, 0)), FileOf(Plain("object", FALSE, 1, 0)),
    <<Other(<<120>>), NL>> }

PoolFile == [content : PoolContents, io : {"ok", "noread", "noparse", "nowrite"}]

\* processFilesParallel is called with a list of at least one file (run
\* returns before the call when it found none), distinct files, any
\* -workers value the flag takes.  The workers are started before the first
\* file is sent.
InitPool ==
  /\ fsys \in UNION { [1 .. n -> PoolFile] : n \in 1 .. MaxFiles }
  /\ cfgWorkers \in -1 .. MaxWorkers
  /\ numCPU \in 1 .. MaxWorkers
  /\ cfgWrite \in BOOLEAN
  /\ sent = 0
  /\ fileChan = <<>>
  /\ chanClosed = FALSE
  /\ workers = [w \in 1 .. workerCount |-> Idle]
  /\ resultChan = <<>>
  /\ mainPc = "send"
  /\ fileStats = ZeroStats(Len(fsys))
  /\ errors = <<>>
  /\ needsSorting = FALSE
  /\ ret = NoReturn
  /\ calls = <<>>
  /\ disk = <<>>
  /\ tieBreak = "source"
  /\ pc = "done"
  /\ content = <<>>
  /\ newContent = <<>>
  /\ items = <<>>
  /\ result = ZeroResult
  /\ regs = <<>>
  /\ run = MaxRuns
  /\ hist = <<>>

\* The files ProcessContent is followed on: those of Files whose markers
\* name no key and no sort-by-comment, so that every strategy is
\* property-name.
ModularFiles ==
  { f \in Files :
      \A i \in 1 .. Len(f) :
        IsMagic(f[i]) => CreateStrategy(ParseSortConfig(f[i])) = "property-name" }

InitModular == Start(ModularFiles, {"source"})

Spec == Init /\ [][Next]_vars

SpecModular == InitModular /\ [][NextModular]_vars

SpecPool == InitPool /\ [][NextPool]_vars

\* The Go scheduler lets every goroutine that can take a step take one: the
\* calling goroutine and each worker are weakly fair.
MainStep == Send \/ CloseFiles \/ WaitDone \/ Collect \/ Return
WorkerLoop(w) == w \in DOMAIN workers /\ (Receive(w) \/ Exit(w))

\* What a step Work(w) does to the worker and to the calling goroutine.
\* Work(w) can be taken exactly when such a step can, and it is the step of
\* the pool that takes worker w out of its loop body.
WorkReturns(w) ==
  /\ w \in DOMAIN workers
  /\ mainPc # "crashed"
  /\ workers[w].st = "work"
  /\ Len(resultChan) < ResultChanCap
  /\ \/ workers' = [workers EXCEPT ![w] = Idle] /\ mainPc' = mainPc
     \/ mainPc' = "crashed" /\ workers' = workers

SpecPoolFair ==
  /\ InitPool
  /\ [][NextPool]_vars
  /\ WF_vars(MainStep)
  /\ \A w \in 1 .. MaxWorkers :
       WF_vars(WorkerLoop(w)) /\ WF_<<workers, mainPc>>(WorkReturns(w))

SpecBig == InitBig /\ [][Next]_vars

---------------------------------------------------------------------------
(* Properties *)

\* The text of a region in the buffer it was found in.
RegionText(c, r) == Slice(c, r.startByte, r.endByte)

\* The canonical rendering of a region: what the reconstructor makes of the
\* region's items in their sorted order.
Rendering(c, r) == Reconstruct(c, r.reg.kind, r.reg, r.res.sorted)

\* A region is in canonical order when its items stand where sorting puts
\* them, and in canonical formatting when its text is its canonical rendering.
InOrder(r) ==
  \A j \in DOMAIN r.res.items : r.res.items[j].node = r.res.sorted[j].node

Canonical(c, r) == InOrder(r) /\ Rendering(c, r) = RegionText(c, r)

AllCanonical == \A i \in DOMAIN regs : Canonical(content, regs[i])

C2_RoundTrip ==
  (Len(hist) >= 2 /\ hist[1].wrote) => ~hist[2].Changed

\* The regions of the finished first pass that needed sorting and lie in no
\* other region that needed sorting, as spans in ascending order.
OuterChanged ==
  LET idx == {i \in DOMAIN regs :
                /\ regs[i].res.changed
                /\ ~\E j \in DOMAIN regs :
                      /\ j # i
                      /\ regs[j].res.changed
                      /\ regs[j].startByte <= regs[i].startByte
                      /\ regs[i].endByte <= regs[j].endByte}
      byStart == [k \in 1 .. Len(regs) |-> regs[Len(regs) + 1 - k]]
  IN [k \in 1 .. Cardinality(idx) |->
        LET i == CHOOSE i \in idx :
                   Cardinality({j \in idx : regs[j].startByte < regs[i].startByte})
                     = k - 1
        IN Node(regs[i].startByte, regs[i].endByte)]

\* n, from position ni on, is c from position ci on with each of the spans
\* replaced by some text.
RECURSIVE FrameFrom(_, _, _, _, _)
FrameFrom(c, n, spans, ci, ni) ==
  IF spans = <<>>
  THEN Slice(c, ci, Len(c) + 1) = Slice(n, ni, Len(n) + 1)
  ELSE LET keep == Head(spans).s - ci
       IN /\ ni + keep <= Len(n) + 1
          /\ Slice(n, ni, ni + keep) = Slice(c, ci, Head(spans).s)
          /\ \E len \in 0 .. (Len(n) + 1 - (ni + keep)) :
               FrameFrom(c, n, Tail(spans), Head(spans).e, ni + keep + len)

Occurs(text, n) ==
  \E at \in 1 .. (Len(n) - Len(text) + 1) : Slice(n, at, at + Len(text)) = text

\* The region needed no sorting and holds no region that did.
Untouched(i) ==
  /\ ~regs[i].res.changed
  /\ ~\E j \in DOMAIN regs :
        /\ regs[j].res.changed
        /\ regs[i].startByte <= regs[j].startByte
        /\ regs[j].endByte <= regs[i].endByte

\* C3 (frame): when a call has rewritten its buffer, the buffer is what was
\* read with only the spans of the regions that needed sorting replaced, and
\* the text of every region that needed no sorting (and holds none that did)
\* is still in it.
C3_Frame ==
  (pc = "done" /\ result.Changed)
    => /\ FrameFrom(content, newContent, OuterChanged, 1, 1)
       /\ \A i \in DOMAIN regs :
            Untouched(i) => Occurs(RegionText(content, regs[i]), newContent)

\* The first pass is over: every region has its sorted order.
Sorted == pc \in {"apply", "done"}

\* The key an item is ordered by.
SortKeyOf(r, it) == IF r.reg.kind = "array" THEN it.sortKey ELSE it.key

\* The item's key could be extracted.
Resolvable(r, it) ==
  r.reg.kind = "array" =>
    extractElementKey(content, it, r.reg.sortConfig.Key).ok

\* Both items lie in the same deprecated partition of the region.
SamePartition(r, x, y) ==
  r.reg.sortConfig.DeprecatedAtEnd => x.isDeprecated = y.isDeprecated

\* The text is a number: an optional minus sign and digits, nothing else.
IsNumber(s) ==
  LET from == IF s # <<>> /\ s[1] = 45 THEN 2 ELSE 1
  IN from <= Len(s) /\ \A i \in from .. Len(s) : s[i] \in Digits

NumberValue(s) ==
  IF s[1] = 45 THEN 0 - DecValue(Tail(s), 1, 0) ELSE DecValue(s, 1, 0)

\* a sorts strictly before b under the type-aware comparison: numeric when
\* both are numbers, false < true for booleans, ordinal string order otherwise.
TypeAwareLess(a, b) ==
  IF IsNumber(a) /\ IsNumber(b) THEN NumberValue(a) < NumberValue(b)
  ELSE IF a \in {TRUEtxt, FALSEtxt} /\ b \in {TRUEtxt, FALSEtxt}
       THEN a = FALSEtxt /\ b = TRUEtxt
  ELSE StrLess(a, b)

\* The items of one partition with resolvable keys stand in key order.
KeyOrdered(r) ==
  \A i, j \in DOMAIN r.res.sorted :
    (/\ i < j
     /\ Resolvable(r, r.res.sorted[i]) /\ Resolvable(r, r.res.sorted[j])
     /\ SamePartition(r, r.res.sorted[i], r.res.sorted[j]))
      => ~TypeAwareLess(SortKeyOf(r, r.res.sorted[j]), SortKeyOf(r, r.res.sorted[i]))

\* C4 (sorted output): in the sorted order of every region, two items with
\* resolvable keys in the same deprecated partition are never out of order
\* under the type-aware comparison, with and without deprecated-at-end.
C4_SortedOutput ==
  Sorted => \A k \in DOMAIN regs : KeyOrdered(regs[k])

\* The sorted order the region has when no item carries a deprecation flag.
Unflagged(its) == [i \in DOMAIN its |-> [its[i] EXCEPT !.isDeprecated = FALSE]]
NodesOf(its) == [i \in DOMAIN its |-> its[i].node]

\* C5 (deprecated last): with deprecated-at-end every deprecated item stands
\* after every other item and each of the two groups is in key order;
\* without the option the order is the one the unflagged items get.
C5_DeprecatedLast ==
  Sorted =>
    \A k \in DOMAIN regs :
      LET r == regs[k]
          out == r.res.sorted
      IN IF r.reg.sortConfig.DeprecatedAtEnd
         THEN /\ \A i, j \in DOMAIN out :
                   (i < j /\ out[i].isDeprecated) => out[j].isDeprecated
              /\ KeyOrdered(r)
         ELSE NodesOf(out)
                = NodesOf(sortSlice(Unflagged(r.res.items), r.reg.kind, FALSE))

\* C6 (unresolvable keys last): in the sorted order of an array region with
\* a key option no item whose key could not be extracted stands before an
\* item of the same deprecated partition whose key could.
C6_UnresolvableLast ==
  Sorted =>
    \A k \in DOMAIN regs :
      LET r == regs[k]
          out == r.res.sorted
      IN (r.reg.kind = "array" /\ r.reg.sortConfig.Key # <<>>)
           => \A i, j \in DOMAIN out :
                (i < j /\ SamePartition(r, out[i], out[j]))
                  => ~(~Resolvable(r, out[i]) /\ Resolvable(r, out[j]))

\* The regions the finished first pass rewrites.
Rewritten == {k \in DOMAIN regs : regs[k].res.changed}

\* The last atom before position i that is neither white space nor a comment
\* (0 if there is none).
RECURSIVE LastSignificant(_, _)
LastSignificant(text, i) ==
  IF i < 1 THEN 0
  ELSE IF IsWs(text[i]) \/ text[i].t = "comment" THEN LastSignificant(text, i - 1)
  ELSE i

\* The last item of a region's text is followed by a comma.
TrailingComma(text) ==
  LET i == LastSignificant(text, Len(text) - 1)
  IN i > 0 /\ text[i].t = ","

\* C8 (trailing comma): in every rewritten region the last item is followed
\* by a comma exactly when the last item of the source was.
C8_TrailingComma ==
  Sorted =>
    \A k \in Rewritten :
      TrailingComma(regs[k].res.out)
        <=> TrailingComma(RegionText(content, regs[k]))

\* The number of places of a text an atom stands at.
CountAtom(a, text) == Cardinality({i \in DOMAIN text : text[i] = a})

\* The white space before position i is skipped backwards.
RECURSIVE BackOverWs(_, _)
BackOverWs(text, i) ==
  IF i >= 1 /\ IsWs(text[i]) THEN BackOverWs(text, i - 1) ELSE i

\* The comment at position p of the text stands directly after the item's
\* comma position: after the item's comma, or after the item if it has none.
AfterCommaPosition(text, p, itemEnd) ==
  LET q == BackOverWs(text, p - 1)
  IN /\ q >= 1
     /\ \/ text[q] = itemEnd
        \/ text[q].t = "," /\ q >= 2 /\ text[q - 1] = itemEnd

\* C9 (trailing comment exactly once): in every rewritten region the
\* same-line trailing comment of each item stands at exactly one place, and
\* that place is directly after the item's comma position.
C9_TrailingCommentOnce ==
  Sorted =>
    \A k \in Rewritten :
      \A j \in DOMAIN regs[k].res.items :
        LET it == regs[k].res.items[j]
            out == regs[k].res.out
            cmt == content[it.afterNode.s]
        IN it.afterNode # NoNode
             => /\ CountAtom(cmt, out) = 1
                /\ \A p \in DOMAIN out :
                     out[p] = cmt
                       => AfterCommaPosition(out, p, content[it.node.e - 1])

\* The comment nodes of a region between its marker and its closing delimiter.
CommentsOf(c, reg) ==
  LET kids == Children(c, reg.node)
  IN {kids[i] : i \in {i \in DOMAIN kids :
                         i > reg.magicIndex /\ NodeType(c, kids[i]) = "comment"}}

\* C10 (comments preserved): every comment node between the marker and the
\* closing delimiter of a rewritten region stands at exactly one place of
\* the rewritten region.
C10_CommentsPreserved ==
  Sorted =>
    \A k \in Rewritten :
      \A n \in CommentsOf(content, regs[k].reg) :
        CountAtom(content[n.s], regs[k].res.out) = 1

\* Two items of a region compare equal under the order the region is sorted by.
Tied(r, x, y) ==
  /\ ~Less(r.reg.kind, r.reg.sortConfig.DeprecatedAtEnd, x, y)
  /\ ~Less(r.reg.kind, r.reg.sortConfig.DeprecatedAtEnd, y, x)

\* Where the item with this node stands in the sorted order.
PlaceOf(r, node) == CHOOSE p \in DOMAIN r.res.sorted : r.res.sorted[p].node = node

\* C7 (stable ties): in the sorted order of a region of any size, items
\* whose keys compare equal keep their relative source order.
C7_StableTies ==
  Sorted =>
    \A k \in DOMAIN regs :
      \A i, j \in DOMAIN regs[k].res.items :
        (i < j /\ Tied(regs[k], regs[k].res.items[i], regs[k].res.items[j]))
          => PlaceOf(regs[k], regs[k].res.items[i].node)
               < PlaceOf(regs[k], regs[k].res.items[j].node)

\* The marker of the region sets both key and sort-by-comment.
Conflicted(c, reg) ==
  /\ c[reg.magicComment.s].k # <<>>
  /\ "sort-by-comment" \in c[reg.magicComment.s].o

\* C11 (configuration conflict): a region whose marker sets both key and
\* sort-by-comment is left unmodified: the first pass finds nothing to
\* rewrite in it, and the finished call has its text where it was.
C11_ConflictSkipped ==
  /\ Sorted =>
       \A k \in DOMAIN regs :
         Conflicted(content, regs[k].reg) => ~regs[k].res.changed
  /\ pc = "done" =>
       \A k \in DOMAIN regs :
         Conflicted(content, regs[k].reg)
           => Occurs(RegionText(content, regs[k]), newContent)

\* C12 (splice validity): the regions are visited by descending start
\* offset, and whenever a region is about to be spliced the range
\* [start, end) of the working buffer holds the bytes it held in the buffer
\* that was read; when a call on several regions is done every region is
\* sorted in the result.
C12_SpliceValid ==
  /\ Sorted =>
       \A i, j \in DOMAIN regs : i < j => regs[i].startByte > regs[j].startByte
  /\ (pc = "apply" /\ items # <<>> /\ Head(items).res.changed)
       => /\ Head(items).endByte <= Len(newContent) + 1
          /\ Slice(newContent, Head(items).startByte, Head(items).endByte)
               = RegionText(content, Head(items))
  /\ (pc = "done" /\ result.Changed /\ Len(regs) >= 2 /\ Balanced(newContent))
       => \A k \in DOMAIN FoundRegions(newContent) :
            LET r == FoundRegions(newContent)[k]
            IN InOrder([res |-> SortRegion(newContent, r)])

\* C13 (dry run): with config.Write off no step changes the file, the file
\* is changed only by a call with Write on that reports Changed, and what a
\* call reports depends on the buffer it read alone, not on Write.
C13_DryRun ==
  /\ [](Sorted => result = ReportOf(content))
  /\ [][/\ ~cfgWrite => disk' = disk
        /\ disk' # disk => cfgWrite /\ result.Changed]_vars

\* A finished dry run on a file that needs sorting: Changed is reported, the
\* sorted text is in the working buffer, the file is as it was read.
C13_Witness ==
  /\ pc = "done"
  /\ ~cfgWrite
  /\ result.Changed
  /\ result.ObjectsNeedSort > 0
  /\ newContent # content
  /\ disk = content

\* The calls of ProcessFileAST on file i that have returned, and the files
\* with a call that returned an error.
CallsOn(i) == {k \in DOMAIN calls : calls[k].file = i}
FailedFiles == {i \in DOMAIN fsys : \E k \in CallsOn(i) : calls[k].err # NoError}

\* C14: when the processing of a file of the list fails (it cannot be read,
\* parsed or written), the run returns an error and counts each failed file
\* once as an error file, and every other file has still been processed once
\* and is counted as needing sorting or as without changes; with Write, a
\* file that did not fail has nothing left to sort.
C14_FailureIsolation ==
  (mainPc = "done" /\ FailedFiles # {}) =>
    /\ ret.err # NoError
    /\ ret.file \in FailedFiles
    /\ fileStats.errorFiles = Cardinality(FailedFiles)
    /\ fileStats.totalFiles = Len(fsys)
    /\ \A i \in DOMAIN fsys : Cardinality(CallsOn(i)) = 1
    /\ fileStats.filesNeedSort + fileStats.filesNoChanges
         = Len(fsys) - Cardinality(FailedFiles)
    /\ \A i \in DOMAIN fsys \ FailedFiles :
         cfgWrite => ~ProcessFileAST(fsys[i], FALSE).result.Changed

C14_Witness ==
  /\ mainPc = "done"
  /\ cfgWrite
  /\ Len(fsys) = 2
  /\ calls # <<>> /\ calls[1].err # NoError
  /\ fileStats.errorFiles = 1
  /\ fileStats.filesNeedSort = 1
  /\ ret.err # NoError

\* C15: for every list of files and every worker count, no file is handed
\* to two workers or processed twice, and when processFilesParallel returns
\* every file of the list has been processed once and counted once.
C15_ExactlyOnce ==
  /\ \A v, w \in DOMAIN workers :
       (v # w /\ workers[v].st = "work" /\ workers[w].st = "work")
         => workers[v].file # workers[w].file
  /\ \A i \in DOMAIN fsys : Cardinality(CallsOn(i)) <= 1
  /\ mainPc = "done" =>
       /\ \A i \in DOMAIN fsys : Cardinality(CallsOn(i)) = 1
       /\ Len(calls) = Len(fsys)
       /\ fileStats.errorFiles + fileStats.filesNeedSort
            + fileStats.filesNoChanges = Len(fsys)

\* The places of a text where the atoms of `part` stand.
PlacesOf(part, text) ==
  {p \in 1 .. Len(text) - Len(part) + 1 :
     SubSeq(text, p, p + Len(part) - 1) = part}

\* The n atoms that stand before place p of the text, white space apart.
RECURSIVE Above(_, _, _)
Above(text, p, n) ==
  IF n = 0 THEN <<>>
  ELSE LET q == BackOverWs(text, p - 1)
       IN IF q < 1 THEN <<>> ELSE Append(Above(text, q, n - 1), text[q])

\* The first place from p on that holds no blank (0 past the end): what
\* follows on the same line.
RECURSIVE OnLineFrom(_, _)
OnLineFrom(text, p) ==
  IF p > Len(text) THEN 0
  ELSE IF text[p].t = "sp" THEN OnLineFrom(text, p + 1)
  ELSE p

\* The item stands in the text with its leading comments directly above it
\* and its trailing comment behind it (and its comma) on its line.
Carried(c, text, it) ==
  LET node == Slice(c, it.node.s, it.node.e)
      lead == [i \in DOMAIN it.beforeNodes |-> c[it.beforeNodes[i].s]]
  IN \E p \in PlacesOf(node, text) :
       /\ Above(text, p, Len(lead)) = lead
       /\ it.afterNode # NoNode =>
            LET q == OnLineFrom(text, p + Len(node))
                after == IF q > 0 /\ text[q].t = ","
                         THEN OnLineFrom(text, q + 1) ELSE q
            IN after > 0 /\ text[after] = c[it.afterNode.s]

\* C16 (permutation): in every rewritten region the written items are the
\* extracted items, each once: the sorted sequence holds every extracted
\* node once, the text of every item's node stands in the output as often
\* as in the source of the region, and every item (also one whose
\* key was not found) has its own leading comments directly above it and
\* its own trailing comment on its line.
C16_Permutation ==
  Sorted =>
    \A k \in Rewritten :
      /\ Len(regs[k].res.sorted) = Len(regs[k].res.items)
      /\ \A j \in DOMAIN regs[k].res.items :
           LET its == regs[k].res.items
               node == Slice(content, its[j].node.s, its[j].node.e)
           IN /\ Cardinality({p \in DOMAIN regs[k].res.sorted :
                                regs[k].res.sorted[p].node = its[j].node}) = 1
              /\ Cardinality(PlacesOf(node, regs[k].res.out))
                   = Cardinality(PlacesOf(node, RegionText(content, regs[k])))
              /\ Carried(content, regs[k].res.out, its[j])

RECURSIVE NextLineEnd(_, _, _)
NextLineEnd(c, p, to) ==
  IF p >= to THEN 0
  ELSE IF c[p].t = "nl" THEN p
  ELSE NextLineEnd(c, p + 1, to)

\* The number of line ends that separate an item from the next one: those
\* of the white space that starts at the end of the item's line.
Separation(c, it, next) ==
  LET p == NextLineEnd(c, it.node.e, next.node.s)
  IN IF p = 0 THEN 0 ELSE CountNewlines(Slice(c, p, SkipWs(c, p)))

\* The items do not all start on one line.
MultiLine(c, its) ==
  \E i \in DOMAIN its : StartRow(c, its[i].node) # StartRow(c, its[1].node)

ExpectedNewlines(reg) == IF reg.sortConfig.WithNewLine THEN 2 ELSE 1

\* A multi-line region whose items are in canonical order.
OrderedMultiLine(r) ==
  /\ Len(r.res.items) >= 2
  /\ InOrder(r)
  /\ MultiLine(content, r.res.items)

OneLine(c, its) ==
  \A i \in DOMAIN its :
    /\ StartRow(c, its[i].node) = StartRow(c, its[1].node)
    /\ EndRow(c, its[i].node) = StartRow(c, its[1].node)

\* C19 (single-line exemption): a region whose items share one source line
\* and are in canonical order is reported unchanged, with or without
\* with-new-line, whether it is an object, an array or a parameter list.
C19_SingleLineExempt ==
  Sorted =>
    \A k \in DOMAIN regs :
      (InOrder(regs[k]) /\ OneLine(content, regs[k].res.items))
        => ~regs[k].res.changed

\* C20 (type-aware comparison): the comparison the elements of an array are
\* sorted with is, for any two of their keys, the numeric one when both keys
\* are numbers in full, false < true when both are true or false, and the
\* ordinal string order otherwise; a key that only starts with digits is
\* compared as a string.
C20_TypeAwareComparison ==
  Sorted =>
    \A k \in DOMAIN regs :
      regs[k].reg.kind = "array" =>
        \A i, j \in DOMAIN regs[k].res.sorted :
          compareKeys(regs[k].res.sorted[i].sortKey, regs[k].res.sorted[j].sortKey)
            <=> TypeAwareLess(regs[k].res.sorted[i].sortKey,
                              regs[k].res.sorted[j].sortKey)

\* The value a key path names in an object literal: every segment is looked
\* up in the object the segment before it led to; there is none when a
\* segment is absent or is looked up in a value that is no object.
RECURSIVE LeafValue(_, _, _)
LeafValue(c, node, keys) ==
  IF NodeType(c, node) # "object" THEN [ok |-> FALSE, val |-> <<>>]
  ELSE LET kids == Children(c, node)
           hit == FindPair(c, kids, 1, Head(keys))
       IN IF hit = 0 THEN [ok |-> FALSE, val |-> <<>>]
          ELSE IF Len(keys) = 1
          THEN [ok |-> TRUE, val |-> extractValueAsString(c, PairValue(c, kids[hit]))]
          ELSE LeafValue(c, PairValue(c, kids[hit]), Tail(keys))

\* C21 (key-path extraction): for an element that is an object and a dotted
\* key path, the key extracted is the normalized text of the value the path
\* leads to through nested objects, and the extraction fails whenever a
\* segment is absent, also when a segment before the last names a value
\* that is no object.
C21_KeyPath ==
  Sorted =>
    \A k \in DOMAIN regs :
      (regs[k].reg.kind = "array" /\ regs[k].reg.sortConfig.Key # <<>>) =>
        \A i \in DOMAIN regs[k].res.items :
          NodeType(content, regs[k].res.items[i].node) = "object" =>
            extractElementKey(content, regs[k].res.items[i],
                              regs[k].reg.sortConfig.Key)
              = LeafValue(content, regs[k].res.items[i].node,
                          SplitDots(regs[k].reg.sortConfig.Key, <<>>))

\* Where a node stands among the children of its region.
KidIndex(kids, node) == CHOOSE i \in DOMAIN kids : kids[i] = node

\* What the look-ahead after the primary node kids[i] is to take: one comma
\* if one follows, and then one comment if it starts on the line the primary
\* node, or that comma, ends on.  upTo is the first child not taken.
TakenAfter(c, kids, i) ==
  LET comma == IF i + 1 <= Len(kids) /\ NodeType(c, kids[i + 1]) = ","
               THEN kids[i + 1] ELSE NoNode
      j == IF comma = NoNode THEN i + 1 ELSE i + 2
      sameLine == /\ j <= Len(kids)
                  /\ NodeType(c, kids[j]) = "comment"
                  /\ \/ StartRow(c, kids[j]) = EndRow(c, kids[i])
                     \/ comma # NoNode /\ StartRow(c, kids[j]) = EndRow(c, comma)
  IN [afterNode |-> IF sameLine THEN kids[j] ELSE NoNode,
      upTo |-> IF sameLine THEN j + 1 ELSE j]

\* The comments among the children from..to - 1, in their order.
RECURSIVE CommentsIn(_, _, _, _)
CommentsIn(c, kids, from, to) ==
  IF from >= to THEN <<>>
  ELSE IF NodeType(c, kids[from]) = "comment"
       THEN <<kids[from]>> \o CommentsIn(c, kids, from + 1, to)
  ELSE CommentsIn(c, kids, from + 1, to)

\* C22 (trailing-comment attachment): after a primary node the look-ahead
\* takes at most one comma and at most one comment; the comment is the
\* item's trailing comment exactly when it starts on the line the primary
\* node (or its comma) ends on, and every comment not taken, one on a later
\* line among them, is a leading comment of the next item.
C22_TrailingAttachment ==
  Sorted =>
    \A k \in DOMAIN regs :
      LET kids == Children(content, regs[k].reg.node)
          its == regs[k].res.items
      IN \A i \in DOMAIN its :
           LET at == KidIndex(kids, its[i].node)
           IN /\ its[i].afterNode = TakenAfter(content, kids, at).afterNode
              /\ i < Len(its) =>
                   its[i + 1].beforeNodes
                     = CommentsIn(content, kids,
                                  TakenAfter(content, kids, at).upTo,
                                  KidIndex(kids, its[i + 1].node))

\* The first place from p on that holds neither white space nor a comment
\* (past the end if there is none).
RECURSIVE NextSignificant(_, _)
NextSignificant(text, p) ==
  IF p > Len(text) THEN p
  ELSE IF IsWs(text[p]) \/ text[p].t = "comment" THEN NextSignificant(text, p + 1)
  ELSE p

\* The places of the output where the text `node` stands as an item, not
\* inside the longer text of another item.
ItemPlaces(c, r, node) ==
  {x \in PlacesOf(node, r.res.out) :
     \A q \in DOMAIN r.res.sorted :
       LET other == Slice(c, r.res.sorted[q].node.s, r.res.sorted[q].node.e)
       IN Len(other) > Len(node)
            => \A y \in PlacesOf(other, r.res.out) :
                 x < y \/ x >= y + Len(other)}

\* Where the item in slot p of the sorted order stands in the output: the
\* text of its node, at the n-th of its places when n - 1 items with the
\* same text stand before it (0 if the output has no such place).
OutputPlace(c, r, p) ==
  LET node == Slice(c, r.res.sorted[p].node.s, r.res.sorted[p].node.e)
      n == Cardinality({q \in 1 .. p :
             Slice(c, r.res.sorted[q].node.s, r.res.sorted[q].node.e) = node})
      places == ItemPlaces(c, r, node)
  IN IF Cardinality(places) < n THEN 0
     ELSE CHOOSE x \in places : Cardinality({y \in places : y <= x}) = n

\* One comma and no second one follows the node that ends before place p.
OneCommaAt(text, p) ==
  LET q == NextSignificant(text, p)
  IN /\ q <= Len(text)
     /\ text[q].t = ","
     /\ LET r == NextSignificant(text, q + 1)
        IN r > Len(text) \/ text[r].t # ","

OutputEnd(c, r, p) ==
  OutputPlace(c, r, p) + (r.res.sorted[p].node.e - r.res.sorted[p].node.s)

\* The output of the region is laid out on one line: no line end between
\* the marker and the last item, and ", " between an item without a
\* trailing comment and the next one.
OnOneLine(c, r) ==
  /\ CountNewlines(Slice(r.res.out, r.reg.magicComment.s - r.reg.node.s + 1,
                         OutputEnd(c, r, Len(r.res.sorted)))) = 0
  /\ \A p \in 1 .. Len(r.res.sorted) - 1 :
       r.res.sorted[p].afterNode = NoNode
         => Slice(r.res.out, OutputEnd(c, r, p), OutputPlace(c, r, p + 1))
              = <<COMMA, SP>>

\* The output of the region has every item on a line of its own.
OnePerLine(c, r) ==
  \A p \in 1 .. Len(r.res.sorted) - 1 :
    CountNewlines(Slice(r.res.out, OutputEnd(c, r, p),
                        OutputPlace(c, r, p + 1))) >= 1

\* C24 (single-line layout): a rewritten region whose items all stand on
\* one line of the source, whatever their sorted order, is written without
\* a line end after the marker and with its items joined by ", " on one
\* line; every other rewritten region is written one item per line.
C24_SingleLineLayout ==
  Sorted =>
    \A k \in Rewritten :
      (\A p \in DOMAIN regs[k].res.sorted : OutputPlace(content, regs[k], p) > 0)
        => IF OneLine(content, regs[k].res.items)
           THEN OnOneLine(content, regs[k])
           ELSE OnePerLine(content, regs[k])

\* The indentation of the line that holds place p: the blanks the line
\* starts with.
RECURSIVE BlankRun(_, _)
BlankRun(text, p) ==
  IF p <= Len(text) /\ text[p].t = "sp"
  THEN <<text[p]>> \o BlankRun(text, p + 1) ELSE <<>>

IndentOf(text, p) == BlankRun(text, LineStart(text, p))

\* What stands at place p of the text is written at the indentation ind:
\* its line starts with ind and nothing else stands before it.
WrittenAt(text, p, ind) == LinePrefix(text, p) = ind

\* C25 (uniform indentation): in a rewritten region whose items do not
\* share one line, every item and every leading comment of every item is
\* written at the indentation the first item has in the source.
C25_UniformIndent ==
  Sorted =>
    \A k \in Rewritten :
      MultiLine(content, regs[k].res.items) =>
        LET ind == IndentOf(content, regs[k].res.items[1].node.s)
            out == regs[k].res.out
        IN \A p \in DOMAIN regs[k].res.sorted :
             LET at == OutputPlace(content, regs[k], p)
                 lead == regs[k].res.sorted[p].beforeNodes
             IN /\ at > 0
                /\ WrittenAt(out, at, ind)
                /\ \A b \in DOMAIN lead :
                     \E x \in 1 .. at - 1 :
                       /\ out[x] = content[lead[b].s]
                       /\ WrittenAt(out, x, ind)

\* The white space that stands directly before the last atom of a region's
\* text, its closing delimiter.
ClosingSpace(text) ==
  SubSeq(text, BackOverWs(text, Len(text) - 1) + 1, Len(text) - 1)

\* C26 (closing spacing): in every rewritten region, of any kind, the white
\* space before the closing delimiter is the white space that stood before
\* it in the source (one line end when the source had none there).
C26_ClosingSpacing ==
  Sorted =>
    \A k \in Rewritten :
      ClosingSpace(regs[k].res.out)
        = (IF ClosingSpace(RegionText(content, regs[k])) = <<>> THEN <<NL>>
           ELSE ClosingSpace(RegionText(content, regs[k])))

---------------------------------------------------------------------------
(* The modular processor on several regions *)

\* The reconstruction of the region of sorter s computed against the buffer
\* c that was parsed: the bytes processSortable puts in place of the node.
OwnReconstruction(c, s) ==
  LET full == processSortable(c, c, s).text
  IN SubSeq(full, s.node.s, Len(full) - (Len(c) + 1 - s.node.e))

\* The sorters of c whose region processSortable rewrites when it is given
\* the buffer that was parsed.
NeedRewrite(c) ==
  SelectSeq(Sorters(c), LAMBDA s : processSortable(c, c, s).text # c)

\* c with the node of every sorter of rs replaced by its own reconstruction;
\* rs is in descending order of start and the nodes are disjoint.
RECURSIVE Replaced(_, _, _)
Replaced(c, nc, rs) ==
  IF rs = <<>> THEN nc
  ELSE Replaced(c,
         Slice(nc, 1, Head(rs).node.s) \o OwnReconstruction(c, Head(rs))
           \o Slice(nc, Head(rs).node.e, Len(nc) + 1),
         Tail(rs))

Disjoint(rs) ==
  \A i, j \in 1 .. Len(rs) :
    i # j => rs[i].node.e <= rs[j].node.s \/ rs[j].node.e <= rs[i].node.s

\* C27: when ProcessContent has gone through a file with two or more marked
\* regions that need rewriting (here: regions none of which lies in
\* another), it returns the buffer it was given with the span of each such
\* region replaced by the reconstruction computed against that buffer, and
\* nothing else changed.
C27_ModularRegions ==
  (pc \in {"returned", "fault", "error"}
     /\ Len(NeedRewrite(content)) >= 2 /\ Disjoint(NeedRewrite(content)))
    => /\ pc = "returned"
       /\ newContent = Replaced(content, content, ByStartDesc(NeedRewrite(content)))

---------------------------------------------------------------------------
(* The indentation string *)

\* The string the reconstructor of region r writes as indentation.
WrittenIndent(c, r) == CommonIndent(c, r.reg.kind, r.reg)

\* C28 (white-space-only indentation): the indentation string written before
\* the items of a rewritten region holds white space only, whatever the
\* layout of the region is.
C28_WhitespaceIndent ==
  Sorted =>
    \A k \in Rewritten :
      \A i \in DOMAIN WrittenIndent(content, regs[k]) :
        IsWs(WrittenIndent(content, regs[k])[i])

---------------------------------------------------------------------------
(* Termination of the worker pool *)

AllExited == \A w \in DOMAIN workers : workers[w].st = "exit"

\* The calling goroutine waits at no send: there is room in fileChan for
\* the file it sends next.
MainSendReady == (mainPc = "send" /\ sent < Len(fsys)) => Len(fileChan) < FileChanCap

\* No worker waits at its send: there is room in resultChan for its result.
WorkerSendReady ==
  \A w \in DOMAIN workers :
    workers[w].st = "work" => Len(resultChan) < ResultChanCap

\* A worker has left its loop only when fileChan is closed and empty.
ExitAfterClose ==
  \A w \in DOMAIN workers : workers[w].st = "exit" => (chanClosed /\ fileChan = <<>>)

\* resultChan is closed (the calling goroutine is past wg.Wait) only when
\* every worker has left its loop, its last result sent.
CloseAfterLastResult ==
  mainPc \in {"collect", "done"}
    => AllExited /\ Len(calls) = Len(fsys) - Len(fileChan)

\* C29 (termination of the worker pool): under fair scheduling
\* processFilesParallel returns for every list of files and every worker
\* count; no send on fileChan or resultChan waits; every worker leaves its
\* loop once fileChan is closed; resultChan is closed only after the last
\* worker has sent its last result.
C29_PoolTermination ==
  /\ [](MainSendReady /\ WorkerSendReady /\ ExitAfterClose /\ CloseAfterLastResult)
  /\ <>(mainPc = "done")
  /\ (chanClosed ~> AllExited)

\* Two files have gone through two workers and the call has returned.
C29_Witness ==
  /\ mainPc = "done"
  /\ Len(fsys) = MaxFiles
  /\ Len(workers) = MaxWorkers
  /\ AllExited
  /\ Len(calls) = MaxFiles
  /\ \E i, j \in DOMAIN calls : calls[i].worker # calls[j].worker

---------------------------------------------------------------------------
(* The order the elements of an array are sorted by *)

\* x comes before y under the less function the array of region r is
\* sorted with.
Before(r, x, y) == arrayLess(r.reg.sortConfig.DeprecatedAtEnd, x, y)

\* Neither comes before the other.
Unordered(r, x, y) == ~Before(r, x, y) /\ ~Before(r, y, x)

\* C30 (comparator consistency): on the elements of a marked array the less
\* function (compareKeys with the missing-key-last rule) is a strict weak
\* ordering: no element comes before itself, no two come before each
\* other, coming before is transitive, and so is being unordered.
C30_StrictWeakOrder ==
  Sorted =>
    \A k \in DOMAIN regs :
      regs[k].reg.kind = "array" =>
        \A x, y, z \in {regs[k].res.sorted[i] : i \in DOMAIN regs[k].res.sorted} :
          /\ ~Before(regs[k], x, x)
          /\ Before(regs[k], x, y) => ~Before(regs[k], y, x)
          /\ (Before(regs[k], x, y) /\ Before(regs[k], y, z)) => Before(regs[k], x, z)
          /\ (Unordered(regs[k], x, y) /\ Unordered(regs[k], y, z))
               => Unordered(regs[k], x, z)
====
